---- MODULE Spec2Model ----
(***************************************************************************)
(* A model of the session and messaging engine of the chat client:        *)
(*   src/src/lib/topics.ts    identifiers and content topics              *)
(*   src/src/lib/ratchet.ts   the symmetric ratchet                       *)
(*   src/src/lib/encoding.ts  encodings, the database and its backup      *)
(*   src/src/store/chatStore.ts  the store: handshake, send, receive      *)
(*                                                                         *)
(* Hashes, HMAC, HKDF, the DH agreement and the authenticated boxes are    *)
(* modelled symbolically: a digest is the (normalised) term it was         *)
(* computed from, so two digests are equal exactly when their inputs are.  *)
(* Every identifier is a sequence of strings.                              *)
(*                                                                         *)
(* Every handler of the store runs as one atomic action (the cooperative   *)
(* scheduler runs one handler at a time in this specification).            *)
(***************************************************************************)
EXTENDS Integers, Sequences, FiniteSets, TLC

(***************************************************************************)
(* Bounds of the exploration.                                              *)
(***************************************************************************)
\* identifiers randomId() may hand out to one user
MaxIds == 5
\* texts the users may send and rekeys they may start, in all
MaxSends == 2
\* envelopes the adversary may inject on a public topic
MaxForged == 1
\* chat requests the users may send in all
MaxRequests == 1
\* groups the users may create in all
MaxGroups == 1
\* envelopes the transport may hand over a second time, in all
MaxDuplicates == 1
\* the entries pushed to an error log in a run
MaxErrors == 6
\* payloads handed to a user's process by somebody who is no party of the run
MaxHostile == 2
\* edits and deletes the users may send in all
MaxEdits == 2
\* chat records a user's list may hold
MaxChats == 3

(***************************************************************************)
(* Program constants.                                                      *)
(***************************************************************************)
MAX_SKIPPED_KEYS == 50

Users == {"A", "B"}

\* The lexicographic order of the chat-key strings (Array.prototype.sort).
Rank(k) == CASE k = "A" -> 1 [] k = "B" -> 2 [] k = "C" -> 3 [] OTHER -> 4

Bodies == {"hello"}
Intros == {"hi"}

\* A key that is a member of groups and belongs to neither user.
Outsider == "C"

GroupNames == {"team"}

\* What createGroup draws with randomBytes(32): the n-th draw of a user.
GroupPool == [A |-> <<"ga1", "ga2", "ga3">>, B |-> <<"gb1", "gb2", "gb3">>]

\* The pool randomId() draws from: the n-th identifier of a user.
IdPool == <<"r1", "r2", "r3", "r4", "r5", "r6", "r7", "r8", "r9", "r10">>

(***************************************************************************)
(* src/src/lib/topics.ts                                                   *)
(***************************************************************************)
\* [a, b].sort(): the two keys in lexicographic order
SortPair(a, b) == IF Rank(a) <= Rank(b) THEN <<a, b>> ELSE <<b, a>>

conversationIdFromPubKeys_Unsorted(pubKeyA, pubKeyB) == <<pubKeyA, pubKeyB>>

\* keccak256(sorted.join(":")): the digest is represented by its preimage
conversationIdFromPubKeys(pubKeyA, pubKeyB) == SortPair(pubKeyA, pubKeyB)

inboxTopic(publicKey) == [kind |-> "inbox", id |-> <<publicKey>>]

dmTopic(conversationId) == [kind |-> "dm", id |-> conversationId]

groupTopic(groupId) == [kind |-> "group", id |-> groupId]

\* Variant: the keys are joined in the order given.
groupSessionId_Unsorted(groupId, pubKeyA, pubKeyB) == groupId \o <<pubKeyA, pubKeyB>>

groupSessionId(groupId, pubKeyA, pubKeyB) == groupId \o SortPair(pubKeyA, pubKeyB)

(***************************************************************************)
(* src/src/lib/crypto.ts and tweetnacl, symbolically.                      *)
(***************************************************************************)
MSG_LABEL == <<"msg">>
CK_LABEL == <<"ck">>

\* The public key of a secret key: a key pair is named by its owner.
PubOf(secretKey) == secretKey

\* nacl.box.before(peerPublic, mySecret): the DH agreement is symmetric
boxBefore(peerPubKey, secretKey) == {peerPubKey, PubOf(secretKey)}

hkdf(ikm, salt, info) == [ikm |-> ikm, salt |-> salt, info |-> info]

\* HMAC-SHA256 in normal form: a chain key is (root, label, i) where i counts
\* the CK_LABEL steps; a message key is the chain key it was derived from, marked.
hmacSha256(key, data) ==
  IF data = CK_LABEL THEN [key EXCEPT !.i = @ + 1]
  ELSE IF data = MSG_LABEL THEN [key EXCEPT !.use = "msg"]
  ELSE [root |-> key, label |-> data, i |-> 0, use |-> "ck"]

\* nacl.secretbox / nacl.box: the box names its key; opening succeeds with that key only
secretbox(plain, key) == [key |-> key, plain |-> plain]

secretboxOpen(box, key) == IF box.key = key THEN <<box.plain>> ELSE <<>>

box(plain, theirPub, mySecret) == [key |-> boxBefore(theirPub, mySecret), plain |-> plain]

boxOpen(sealed, theirPub, mySecret) ==
  IF sealed.key = boxBefore(theirPub, mySecret) THEN <<sealed.plain>> ELSE <<>>

\* src/src/lib/crypto.ts, AES-GCM under a key derived from the passphrase: the
\* ciphertext names its passphrase, and decryption with another passphrase
\* fails the authentication (<<>> stands for the error thrown).
encryptWithPassphrase(data, passphrase) == [data |-> data, passphrase |-> passphrase]

\* Variant: the data comes out whatever the passphrase.
decryptWithPassphrase_AnyPassphrase(payload, passphrase) == <<payload.data>>

decryptWithPassphrase(payload, passphrase) ==
  IF payload.passphrase = passphrase THEN <<payload.data>> ELSE <<>>

(***************************************************************************)
(* src/src/lib/ratchet.ts                                                  *)
(***************************************************************************)
deriveRootKey(sharedSecret, conversationId) == hkdf(sharedSecret, conversationId, <<"root">>)

\* Variant: the receive chain is labelled as a chain of its own.
deriveChainKeys_OwnLabels(rootKey, myPubKey, otherPubKey) ==
  [sendCK |-> hmacSha256(rootKey, <<"send", myPubKey>>),
   recvCK |-> hmacSha256(rootKey, <<"recv", otherPubKey>>)]

deriveChainKeys(rootKey, myPubKey, otherPubKey) ==
  [sendCK |-> hmacSha256(rootKey, <<"send", myPubKey>>),
   recvCK |-> hmacSha256(rootKey, <<"send", otherPubKey>>)]

\* Variant: the counter moves on and the chain key stays.
advanceSend_KeepsChainKey(session) ==
  [messageKey |-> hmacSha256(session.sendCK, MSG_LABEL),
   nextSession |-> [session EXCEPT !.sendN = session.sendN + 1]]

advanceSend(session) ==
  LET currentCK == session.sendCK
      messageKey == hmacSha256(currentCK, MSG_LABEL)
      nextCK == hmacSha256(currentCK, CK_LABEL)
  IN [messageKey |-> messageKey,
      nextSession |-> [session EXCEPT !.sendCK = nextCK, !.sendN = session.sendN + 1]]

\* Restriction of a map to a subset of its keys.
Restrict(f, S) == [k \in S |-> f[k]]

\* The m largest elements of a finite set of numbers.
Largest(S, m) == {x \in S : Cardinality({y \in S : y > x}) < m}

trimSkipped(skipped, maxSkipped) ==
  IF Cardinality(DOMAIN skipped) <= maxSkipped THEN skipped
  ELSE Restrict(skipped, Largest(DOMAIN skipped, maxSkipped))

\* One pass of the body of deriveReceiveKey's loop, at counter index: st carries
\* ck, the skipped map and the derived key.
ReceiveStep(st, index, n, maxSkipped) ==
  LET messageKey == hmacSha256(st.ck, MSG_LABEL)
      ck == hmacSha256(st.ck, CK_LABEL)
  IN IF index = n THEN [st EXCEPT !.ck = ck, !.derivedKey = <<messageKey>>]
     ELSE IF Cardinality(DOMAIN st.skipped) < maxSkipped
       THEN [st EXCEPT !.ck = ck, !.skipped = (index :> messageKey) @@ st.skipped]
     ELSE [st EXCEPT !.ck = ck]

\* The passes for the counters from .. to, in increasing order. The range is
\* halved, and the state after the first half is a value before the second half
\* starts, so that the evaluation stays shallow; the passes and their order are
\* those of the loop.
RECURSIVE ReceivePasses(_, _, _, _, _)
ReceivePasses(st, from, to, n, maxSkipped) ==
  IF from > to THEN st
  ELSE IF from = to THEN ReceiveStep(st, from, n, maxSkipped)
  ELSE LET mid == (from + to) \div 2
       IN CHOOSE r \in {ReceivePasses(half, mid + 1, to, n, maxSkipped) :
                          half \in {ReceivePasses(st, from, mid, n, maxSkipped)}} : TRUE

\* The loop of deriveReceiveKey: for (index = recvN; index <= n; index += 1)
ReceiveLoop(st, index, n, maxSkipped) == ReceivePasses(st, index, n, n, maxSkipped)

\* Variant: a key found in the cache is handed out but stays cached.
deriveReceiveKey_KeepsCachedKey(session, n, maxSkipped) ==
  LET skipped == session.skippedKeys
  IN IF n < session.recvN
       THEN IF n \notin DOMAIN skipped
              THEN [messageKey |-> <<>>, nextSession |-> session, fromCache |-> FALSE]
              ELSE [messageKey |-> <<skipped[n]>>, nextSession |-> session, fromCache |-> TRUE]
       ELSE LET r == ReceiveLoop([ck |-> session.recvCK, skipped |-> skipped, derivedKey |-> <<>>],
                                 session.recvN, n, maxSkipped)
            IN [messageKey |-> r.derivedKey,
                nextSession |-> [session EXCEPT !.recvCK = r.ck,
                                                !.recvN = n + 1,
                                                !.skippedKeys = trimSkipped(r.skipped, maxSkipped)],
                fromCache |-> FALSE]

\* Variant: every skipped key is cached, whatever the size of the cache.
deriveReceiveKey_Unbounded(session, n, maxSkipped) ==
  LET skipped == session.skippedKeys
  IN IF n < session.recvN
       THEN IF n \notin DOMAIN skipped
              THEN [messageKey |-> <<>>, nextSession |-> session, fromCache |-> FALSE]
              ELSE [messageKey |-> <<skipped[n]>>,
                    nextSession |-> [session EXCEPT
                                       !.skippedKeys = Restrict(skipped, DOMAIN skipped \ {n})],
                    fromCache |-> TRUE]
       ELSE LET r == ReceiveLoop([ck |-> session.recvCK, skipped |-> skipped, derivedKey |-> <<>>],
                                 session.recvN, n, n + 1)
            IN [messageKey |-> r.derivedKey,
                nextSession |-> [session EXCEPT !.recvCK = r.ck,
                                                !.recvN = n + 1,
                                                !.skippedKeys = r.skipped],
                fromCache |-> FALSE]

\* Variant: a counter below recvN with no cached key gets the key of the current chain.
deriveReceiveKey_LateDerives(session, n, maxSkipped) ==
  LET skipped == session.skippedKeys
  IN IF n < session.recvN
       THEN IF n \notin DOMAIN skipped
              THEN [messageKey |-> <<hmacSha256(session.recvCK, MSG_LABEL)>>,
                    nextSession |-> session, fromCache |-> FALSE]
              ELSE [messageKey |-> <<skipped[n]>>,
                    nextSession |-> [session EXCEPT
                                       !.skippedKeys = Restrict(skipped, DOMAIN skipped \ {n})],
                    fromCache |-> TRUE]
       ELSE LET r == ReceiveLoop([ck |-> session.recvCK, skipped |-> skipped, derivedKey |-> <<>>],
                                 session.recvN, n, maxSkipped)
            IN [messageKey |-> r.derivedKey,
                nextSession |-> [session EXCEPT !.recvCK = r.ck,
                                                !.recvN = n + 1,
                                                !.skippedKeys = trimSkipped(r.skipped, maxSkipped)],
                fromCache |-> FALSE]

deriveReceiveKey(session, n, maxSkipped) ==
  LET skipped == session.skippedKeys
  IN IF n < session.recvN
       THEN IF n \notin DOMAIN skipped
              THEN [messageKey |-> <<>>, nextSession |-> session, fromCache |-> FALSE]
              ELSE [messageKey |-> <<skipped[n]>>,
                    nextSession |-> [session EXCEPT
                                       !.skippedKeys = Restrict(skipped, DOMAIN skipped \ {n})],
                    fromCache |-> TRUE]
       ELSE LET r == ReceiveLoop([ck |-> session.recvCK, skipped |-> skipped, derivedKey |-> <<>>],
                                 session.recvN, n, maxSkipped)
            IN [messageKey |-> r.derivedKey,
                nextSession |-> [session EXCEPT !.recvCK = r.ck,
                                                !.recvN = n + 1,
                                                !.skippedKeys = trimSkipped(r.skipped, maxSkipped)],
                fromCache |-> FALSE]

(***************************************************************************)
(* Small helpers on sequences and on maps (JavaScript objects, IndexedDB   *)
(* object stores): a map is a function whose domain is its set of keys.    *)
(***************************************************************************)
EmptyMap == <<>>

Put(map, k, v) == (k :> v) @@ map

Range(seq) == {seq[i] : i \in DOMAIN seq}

SelectIdx(seq, Test(_)) == {i \in DOMAIN seq : Test(seq[i])}

Min(S) == CHOOSE x \in S : \A y \in S : x <= y

Max(S) == CHOOSE x \in S : \A y \in S : y <= x

Max0(a, b) == IF a >= b THEN a ELSE b

(***************************************************************************)
(* The state.                                                              *)
(*   store             the zustand state of each user (ChatState)          *)
(*   db                each user's IndexedDB stores (src/src/lib/idb)      *)
(*   subscribedTopics  each process's set of subscribed content topics     *)
(*   net               envelopes the transport has yet to deliver          *)
(*   nextId            how many identifiers randomId() has handed out      *)
(*   forged, requested, created, rekeyed   envelopes forged, chat requests   *)
(*                     sent, groups created and rekeys started so far      *)
(*   duplicated        envelopes the transport has handed over twice       *)
(*   ghost             per user and session: the seed of the session and   *)
(*                     the number of send operations since it was seeded   *)
(*   last              the operation that made the last step               *)
(***************************************************************************)
VARIABLES store, db, subscribedTopics, net, nextId, forged, requested, created, rekeyed,
          duplicated, ghost, last

storeVars ==
  <<store, db, subscribedTopics, net, nextId, forged, requested, created, rekeyed,
    duplicated, ghost, last>>

NoEnvelope == [type |-> "none"]

InitChatState ==
  [identity |-> <<>>, unlockedSecretKey |-> "", chatKey |-> "", inboxTopic |-> <<>>,
   requests |-> <<>>, chats |-> <<>>, messages |-> EmptyMap, reactions |-> EmptyMap,
   attachments |-> EmptyMap, sessions |-> EmptyMap,
   activeChatId |-> <<>>, wakuReady |-> FALSE, errors |-> <<>>]

InitDb ==
  [identity |-> <<>>, requests |-> EmptyMap, requestStates |-> EmptyMap, chats |-> EmptyMap,
   sessions |-> EmptyMap, messages |-> EmptyMap, reactions |-> EmptyMap,
   attachments |-> EmptyMap]

StoreInit ==
  /\ store = [u \in Users |-> InitChatState]
  /\ db = [u \in Users |-> InitDb]
  /\ subscribedTopics = [u \in Users |-> {}]
  /\ net = {}
  /\ nextId = [u \in Users |-> 0]
  /\ forged = 0
  /\ requested = 0
  /\ created = 0
  /\ rekeyed = 0
  /\ duplicated = 0
  /\ ghost = [u \in Users |-> EmptyMap]
  /\ last = [op |-> "init", user |-> "", env |-> NoEnvelope, out |-> "", pub |-> <<>>]

(***************************************************************************)
(* A handler is a function on contexts: the context carries what one       *)
(* handler reads and writes (its user's state, database and subscriptions, *)
(* the envelopes it has published so far, the identifiers it has drawn).   *)
(***************************************************************************)
Ctx(u) ==
  [me |-> u, st |-> store[u], db |-> db[u], subs |-> subscribedTopics[u],
   pub |-> <<>>, nid |-> nextId[u], gh |-> ghost[u], out |-> "none", groups |-> created]

\* publishPayload(topic, encodePayload(env))
publishPayload(c, topic, env) ==
  [c EXCEPT !.pub = Append(@, [topic |-> topic, env |-> env, echo |-> topic \in c.subs])]

ensureSubscription(c, topic) == [c EXCEPT !.subs = @ \cup {topic}]

\* randomId(): the next unused identifier of the user
randomId(c) ==
  <<"id", c.me, IF c.nid + 1 \in DOMAIN IdPool THEN IdPool[c.nid + 1] ELSE "none">>

TookId(c) == [c EXCEPT !.nid = @ + 1]

Outcome(c, out) == [c EXCEPT !.out = out]

messageListForChat(messages, chatId) ==
  IF chatId \in DOMAIN messages THEN messages[chatId] ELSE <<>>

\* Variant: the record is pushed twice.
updateMessageList_PushesTwice(messages, chatId, next) ==
  Put(messages, chatId, Append(Append(messageListForChat(messages, chatId), next), next))

\* Every timestamp of a MessageRecord is the local now() at the moment the
\* record is made, so the list is already in timestamp order and the stable
\* sort leaves the pushed record last.
updateMessageList(messages, chatId, next) ==
  Put(messages, chatId, Append(messageListForChat(messages, chatId), next))

mergeMessageUpdate(messages, chatId, messageId, updater(_)) ==
  Put(messages, chatId,
      [i \in DOMAIN messageListForChat(messages, chatId) |->
         LET item == messageListForChat(messages, chatId)[i]
         IN IF item.id = messageId THEN updater(item) ELSE item])

MessageRecord(id, chatId, type, fromPubKey, body, status, n) ==
  [id |-> id, chatId |-> chatId, type |-> type, fromPubKey |-> fromPubKey, body |-> body,
   status |-> status, n |-> n, edited |-> FALSE, deleted |-> FALSE, keyMismatch |-> FALSE,
   attachmentId |-> <<>>]

createSystemMessage(c, chatId, body) ==
  MessageRecord(randomId(c), chatId, "system", "system", body, "", -1)

setMessage(c, message) == [c EXCEPT !.db.messages = Put(@, message.id, message)]

setSession(c, session) == [c EXCEPT !.db.sessions = Put(@, session.conversationId, session)]

setChat(c, chat) == [c EXCEPT !.db.chats = Put(@, chat.id, chat)]

setRequest(c, request) == [c EXCEPT !.db.requests = Put(@, request.id, request)]

setRequestState(c, id, status) == [c EXCEPT !.db.requestStates = Put(@, id, status)]

setReaction(c, reaction) == [c EXCEPT !.db.reactions = Put(@, reaction.id, reaction)]

setAttachment(c, attachment) == [c EXCEPT !.db.attachments = Put(@, attachment.id, attachment)]

\* list.slice(-n)
SliceLast(list, n) ==
  IF Len(list) <= n THEN list ELSE SubSeq(list, Len(list) - n + 1, Len(list))

\* addError: the error log keeps its five most recent entries.
addError(c, message) == [c EXCEPT !.st.errors = SliceLast(Append(@, message), 5)]

Unlocked(st) == st.unlockedSecretKey # "" /\ st.chatKey # ""

\* The identity is absent or not unlocked.
Locked(st) == st.identity = <<>> \/ st.unlockedSecretKey = "" \/ st.chatKey = ""

HasChat(st, chatId) == \E i \in DOMAIN st.chats : st.chats[i].id = chatId

\* chats.find((item) => item.id === chatId): the first match
FindChat(st, chatId) == st.chats[Min({i \in DOMAIN st.chats : st.chats[i].id = chatId})]

\* messages[chatId]?.find((msg) => msg.id === messageId): the first match
FindFirstMessage(messages, chatId, messageId) ==
  LET list == messageListForChat(messages, chatId)
  IN list[Min({i \in DOMAIN list : list[i].id = messageId})]

HasRequest(st, requestId) == \E i \in DOMAIN st.requests : st.requests[i].id = requestId

FindRequest(st, requestId) ==
  st.requests[Min({i \in DOMAIN st.requests : st.requests[i].id = requestId})]

\* array.filter(keep)
FilterSeq(seq, Keep(_)) == SelectSeq(seq, Keep)

(***************************************************************************)
(* Encodings (src/src/lib/encoding.ts, decodePayload of chatStore.ts).     *)
(* The bytes of a payload are either the JSON text of a value or bytes     *)
(* that are no JSON text; a string is valid base58 or not; a sealed box is *)
(* carried as valid base64 or not.                                         *)
(***************************************************************************)
\* A string that is not base58 (it holds a character outside the alphabet).
BadKey == "!bad"

\* base58ToBytes(value) throws: bs58.decode rejects the string
base58Throws(value) == value = BadKey

\* base64ToBytes(value) throws: atob rejects the string
base64Throws(value) == "malformed" \in DOMAIN value

\* encodePayload: the bytes of JSON.stringify(payload)
encodePayload(payload) == [json |-> TRUE, value |-> payload]

\* decodePayload: JSON.parse of the bytes, null (here <<>>) when it throws
decodePayload(bytes) == IF bytes.json THEN <<bytes.value>> ELSE <<>>

(***************************************************************************)
(* Sessions (ensureSession, resetSession, getSendKey).                     *)
(***************************************************************************)
\* The body shared by ensureSession and resetSession: the session seeded from
\* the DH of the two identity keys.
SeedSession(st, conversationId, kind, peerPubKey) ==
  LET sharedSecret == boxBefore(peerPubKey, st.unlockedSecretKey)
      rootKey == deriveRootKey(sharedSecret, conversationId)
      cks == deriveChainKeys(rootKey, st.chatKey, peerPubKey)
  IN [conversationId |-> conversationId, kind |-> kind, peerPubKey |-> peerPubKey,
      sendCK |-> cks.sendCK, recvCK |-> cks.recvCK, sendN |-> 0, recvN |-> 0,
      skippedKeys |-> EmptyMap]

Seeded(c, session) ==
  [c EXCEPT !.gh = Put(@, session.conversationId, [seed |-> session, sends |-> 0])]

HasSession(c, conversationId) ==
  conversationId \in DOMAIN c.st.sessions \/ conversationId \in DOMAIN c.db.sessions

\* ensureSession: the context after the call
ensureSession(c, conversationId, kind, peerPubKey) ==
  IF HasSession(c, conversationId) THEN c
  ELSE LET session == SeedSession(c.st, conversationId, kind, peerPubKey)
           c1 == setSession(c, session)
       IN Seeded([c1 EXCEPT !.st.sessions = Put(@, conversationId, session)], session)

\* ensureSession: the session it returns
ensuredSession(c, conversationId, kind, peerPubKey) ==
  IF conversationId \in DOMAIN c.st.sessions THEN c.st.sessions[conversationId]
  ELSE IF conversationId \in DOMAIN c.db.sessions THEN c.db.sessions[conversationId]
  ELSE SeedSession(c.st, conversationId, kind, peerPubKey)

resetSession(c, conversationId, kind, peerPubKey) ==
  LET session == SeedSession(c.st, conversationId, kind, peerPubKey)
      c1 == setSession(c, session)
  IN Seeded([c1 EXCEPT !.st.sessions = Put(@, conversationId, session)], session)

\* Variant: the counter of the next key, not of the key just used.
messageNumber_NextIndex(session) == session.sendN

\* Math.max(0, session.sendN - 1) on the session getSendKey returned
messageNumber(session) == Max0(0, session.sendN - 1)

\* getSendKey: ensureSession, then advanceSend on the session it returned
getSendKey(c, conversationId, kind, peerPubKey) ==
  advanceSend(ensuredSession(c, conversationId, kind, peerPubKey))

\* one more send operation on the session (ghost)
CountSend(c, conversationId) ==
  [c EXCEPT !.gh = [@ EXCEPT ![conversationId].sends = @ + 1]]

(***************************************************************************)
(* The commands of the store (src/src/store/chatStore.ts).                 *)
(***************************************************************************)
ChatTopic(chat) == IF chat.kind = "dm" THEN dmTopic(chat.id) ELSE groupTopic(chat.id)

createIdentity(c, passphrase) ==
  LET keypair == c.me
      identity == [id |-> "local", publicKey |-> PubOf(keypair),
                   encryptedSecretKey |-> encryptWithPassphrase(keypair, passphrase)]
      c1 == [c EXCEPT !.db.identity = <<identity>>,
                      !.st.identity = <<identity>>,
                      !.st.unlockedSecretKey = keypair,
                      !.st.chatKey = PubOf(keypair),
                      !.st.inboxTopic = <<inboxTopic(PubOf(keypair))>>]
      c2 == ensureSubscription(c1, inboxTopic(PubOf(keypair)))
      acceptedChats == {chat \in Range(c2.st.chats) : chat.accepted}
      c3 == [c2 EXCEPT !.subs = @ \cup {ChatTopic(chat) : chat \in acceptedChats}]
  IN [c3 EXCEPT !.st.wakuReady = TRUE]

RequestRecord(id, kind, fromPubKey, toPubKey, intro, status) ==
  [id |-> id, kind |-> kind, fromPubKey |-> fromPubKey, toPubKey |-> toPubKey,
   intro |-> intro, status |-> status, groupId |-> <<>>, groupName |-> "", members |-> <<>>]

sendChatRequest(c, toChatKey, intro) ==
  LET state == c.st
      requestId == randomId(c)
      ciphertext == box(intro, toChatKey, state.unlockedSecretKey)
      payload == [v |-> 1, type |-> "chat_request", requestId |-> requestId,
                  fromPubKey |-> state.chatKey, toPubKey |-> toChatKey,
                  ciphertext |-> ciphertext]
      c1 == publishPayload(TookId(c), inboxTopic(toChatKey), payload)
      request == RequestRecord(requestId, "dm", state.chatKey, toChatKey, intro, "pending")
      c2 == setRequestState(setRequest(c1, request), requestId, "pending")
  IN IF ~Unlocked(state) \/ state.inboxTopic = <<>>
       THEN Outcome(addError(c, "Unlock identity first."), "error")
     ELSE Outcome([c2 EXCEPT !.st.requests = Append(@, request)], "requested")

ChatRecord(id, kind, title, participants) ==
  [id |-> id, kind |-> kind, title |-> title, participants |-> participants,
   accepted |-> TRUE, lastMessageAt |-> 0, unreadCount |-> 0]

\* The body of the system message respondToRequest embeds the intro in.
IntroBody(intro) ==
  CASE intro = "hi" -> "Chat request: hi"
    [] OTHER -> "Chat request: Unable to decrypt intro."

\* `group_${response}`
GroupResponseType(response) ==
  CASE response = "accepted" -> "group_accepted"
    [] response = "declined" -> "group_declined"
    [] OTHER -> "group_blocked"

\* respondToRequest, the branch of a group request (request.kind === "group")
respondToGroupRequest(c, request, response) ==
  LET state == c.st
      payload == [v |-> 1, type |-> GroupResponseType(response), requestId |-> request.id,
                  groupId |-> request.groupId, fromPubKey |-> state.chatKey,
                  toPubKey |-> request.fromPubKey]
      c1 == publishPayload(c, inboxTopic(request.fromPubKey), payload)
      chat == ChatRecord(request.groupId[1], "group",
                         IF request.groupName # "" THEN request.groupName ELSE "Group",
                         IF request.members # <<>> THEN request.members ELSE <<state.chatKey>>)
      c2 == [setChat(c1, chat) EXCEPT !.st.chats = Append(@, chat)]
      c3 == ensureSubscription(c2, groupTopic(chat.id))
  IN IF response = "accepted" /\ request.groupId # <<>> THEN Outcome(c3, response)
     ELSE Outcome(c1, response)

respondToRequest(c, requestId, response) ==
  LET state == c.st
      request == FindRequest(state, requestId)
      updated == [request EXCEPT !.status = response]
      c1 == setRequestState(setRequest(c, updated), requestId, response)
      c2 == [c1 EXCEPT !.st.requests =
               [i \in DOMAIN @ |-> IF @[i].id = requestId THEN updated ELSE @[i]]]
      targetInbox == inboxTopic(request.fromPubKey)
      type == IF response = "accepted" THEN "chat_accept"
              ELSE IF response = "declined" THEN "chat_declined" ELSE "chat_blocked"
      chatId == conversationIdFromPubKeys(state.chatKey, request.fromPubKey)
      payload == [v |-> 1, type |-> type, requestId |-> requestId,
                  fromPubKey |-> state.chatKey, toPubKey |-> request.fromPubKey,
                  conversationId |-> chatId]
      c3 == publishPayload(c2, targetInbox, payload)
      chat == ChatRecord(chatId, request.kind, request.fromPubKey,
                         <<state.chatKey, request.fromPubKey>>)
      c4 == [setChat(c3, chat) EXCEPT !.st.chats = Append(@, chat)]
      c5 == ensureSubscription(c4, dmTopic(chatId))
      c6 == ensureSession(c5, chatId, "dm", request.fromPubKey)
      systemMessage == createSystemMessage(c6, chatId, IntroBody(request.intro))
      c7 == [setMessage(TookId(c6), systemMessage) EXCEPT
               !.st.messages = updateMessageList(@, chatId, systemMessage)]
  IN IF ~HasRequest(state, requestId) \/ ~Unlocked(state) THEN Outcome(c, "return")
     ELSE IF request.kind = "group" THEN respondToGroupRequest(c2, request, response)
     ELSE IF response # "accepted" THEN Outcome(c3, response)
     ELSE IF messageListForChat(c6.st.messages, chatId) = <<>> THEN Outcome(c7, response)
     ELSE Outcome(c6, response)

\* Variant: the loop seals an entry for the sender as well.
RECURSIVE sealGroupEntries_ForSenderToo(_, _, _, _, _)
sealGroupEntries_ForSenderToo(acc, chat, chatKey, innerPayload, i) ==
  IF i > Len(chat.participants) THEN acc
  ELSE LET member == chat.participants[i]
           convId == groupSessionId(chat.id, chatKey, member)
           c1 == ensureSession(acc.c, convId, "group", member)
           key == getSendKey(acc.c, convId, "group", member)
           session == key.nextSession
           entry == [toPubKey |-> member, n |-> messageNumber(session),
                     ciphertext |-> secretbox(innerPayload, key.messageKey)]
       IN sealGroupEntries_ForSenderToo(
            [c |-> CountSend(c1, convId),
             sealed |-> Append(acc.sealed, entry),
             updatedSessions |-> Append(acc.updatedSessions, session)],
            chat, chatKey, innerPayload, i + 1)

\* The loop of sendGroupMessage over chat.participants, from the i-th on: acc
\* carries the context, the sealed entries and the updated sessions.
RECURSIVE sealGroupEntries(_, _, _, _, _)
sealGroupEntries(acc, chat, chatKey, innerPayload, i) ==
  IF i > Len(chat.participants) THEN acc
  ELSE LET member == chat.participants[i]
           convId == groupSessionId(chat.id, chatKey, member)
           c1 == ensureSession(acc.c, convId, "group", member)
           key == getSendKey(acc.c, convId, "group", member)
           session == key.nextSession
           entry == [toPubKey |-> member, n |-> messageNumber(session),
                     ciphertext |-> secretbox(innerPayload, key.messageKey)]
       IN IF member = chatKey
            THEN sealGroupEntries(acc, chat, chatKey, innerPayload, i + 1)
          ELSE sealGroupEntries([c |-> CountSend(c1, convId),
                                 sealed |-> Append(acc.sealed, entry),
                                 updatedSessions |-> Append(acc.updatedSessions, session)],
                                chat, chatKey, innerPayload, i + 1)

\* The map after sessions[session.conversationId] = session for each of the
\* sessions in turn.
PutSessions(map, sessions) ==
  LET ids == {sessions[i].conversationId : i \in DOMAIN sessions}
      LastOf(id) == sessions[CHOOSE i \in DOMAIN sessions :
                               /\ sessions[i].conversationId = id
                               /\ \A j \in DOMAIN sessions :
                                    sessions[j].conversationId = id => j <= i]
  IN [id \in DOMAIN map \cup ids |-> IF id \in ids THEN LastOf(id) ELSE map[id]]

\* messageId is <<>> when the caller passes none (messageId || randomId()).
sendGroupMessage(c, chat, innerPayload, messageId) ==
  LET state == c.st
      r == sealGroupEntries([c |-> c, sealed |-> <<>>, updatedSessions |-> <<>>],
                            chat, state.chatKey, innerPayload, 1)
      payload == [v |-> 1, type |-> "group_message", groupId |-> chat.id,
                  messageId |-> IF messageId # <<>> THEN messageId ELSE randomId(r.c),
                  fromPubKey |-> state.chatKey, sealed |-> r.sealed]
      c1 == publishPayload(IF messageId # <<>> THEN r.c ELSE TookId(r.c),
                           groupTopic(chat.id), payload)
  IN IF ~Unlocked(state) THEN c
     ELSE [c1 EXCEPT !.db.sessions = PutSessions(@, r.updatedSessions),
                     !.st.sessions = PutSessions(@, r.updatedSessions)]

\* sendMessage, the branch of a group chat (chat.kind === "group")
sendMessageToGroup(c, chat, body) ==
  LET state == c.st
      chatId == chat.id
      messageId == randomId(c)
      message == MessageRecord(messageId, chatId, "text", state.chatKey, body, "sent", -1)
      c1 == setMessage(TookId(c), message)
      c2 == [c1 EXCEPT
               !.st.messages = updateMessageList(@, chatId, message),
               !.st.chats = [i \in DOMAIN @ |->
                               IF @[i].id = chatId THEN [@[i] EXCEPT !.lastMessageAt = 1]
                               ELSE @[i]]]
  IN Outcome(sendGroupMessage(c2, chat, [kind |-> "text", body |-> body], messageId), "sent")

\* sendMessage on a DM up to the sealed envelope (getSendKey reads the session
\* when it is called): the context, and what the handler carries across its
\* suspension points.
sendMessageSealed(c, chatId, body) ==
  LET state == c.st
      chat == FindChat(state, chatId)
      peers == SelectIdx(chat.participants, LAMBDA key : key # state.chatKey)
      peerPubKey == chat.participants[Min(peers)]
      c1 == ensureSession(c, chatId, chat.kind, peerPubKey)
      key == getSendKey(c, chatId, chat.kind, peerPubKey)
      session == key.nextSession
      n == messageNumber(session)
      innerPayload == [kind |-> "text", body |-> body]
      ciphertext == secretbox(innerPayload, key.messageKey)
      messageId == randomId(c1)
      payload == [v |-> 1, type |-> "dm_message", conversationId |-> chatId,
                  messageId |-> messageId, fromPubKey |-> state.chatKey,
                  n |-> n, ciphertext |-> ciphertext]
  IN [c |-> TookId(c1),
      task |-> [kind |-> "sendMessage", pc |-> "publish", chatId |-> chatId,
                session |-> session, payload |-> payload,
                message |-> MessageRecord(messageId, chatId, "text", state.chatKey, body,
                                          "sent", n)]]

\* await publishPayload(dmTopic(chatId), encodePayload(payload))
sendMessagePublish(c, task) == publishPayload(c, dmTopic(task.chatId), task.payload)

\* await setSession(session)
sendMessageSetSession(c, task) == setSession(c, task.session)

\* await setMessage(message)
sendMessageSetMessage(c, task) == setMessage(c, task.message)

\* set((prev) => ({ messages, chats, sessions }))
sendMessageRecord(c, task) ==
  [c EXCEPT
     !.st.messages = updateMessageList(@, task.chatId, task.message),
     !.st.chats = [i \in DOMAIN @ |->
                     IF @[i].id = task.chatId THEN [@[i] EXCEPT !.lastMessageAt = 1]
                     ELSE @[i]],
     !.st.sessions = Put(@, task.chatId, task.session)]

sendMessage(c, chatId, body) ==
  LET state == c.st
      chat == FindChat(state, chatId)
      peers == SelectIdx(chat.participants, LAMBDA key : key # state.chatKey)
      sealed == sendMessageSealed(c, chatId, body)
      c2 == sendMessagePublish(sealed.c, sealed.task)
      c3 == sendMessageSetSession(c2, sealed.task)
      c4 == sendMessageSetMessage(c3, sealed.task)
      c5 == sendMessageRecord(c4, sealed.task)
  IN IF ~HasChat(state, chatId) \/ ~chat.accepted \/ ~Unlocked(state)
       THEN Outcome(addError(c, "Chat not ready."), "error")
     ELSE IF chat.kind = "group" THEN sendMessageToGroup(c, chat, body)
     ELSE IF peers = {} THEN Outcome(c, "return")
     ELSE Outcome(CountSend(c5, chatId), "sent")

\* sendEventMessage up to the sealed envelope; messageId is <<>> when the
\* caller passes none (messageId || randomId()).
sendEventSealed(c, chat, eventPayload, messageId) ==
  LET state == c.st
      peers == SelectIdx(chat.participants, LAMBDA key : key # state.chatKey)
      peerPubKey == chat.participants[Min(peers)]
      c1 == ensureSession(c, chat.id, chat.kind, peerPubKey)
      key == getSendKey(c, chat.id, chat.kind, peerPubKey)
      session == key.nextSession
      n == messageNumber(session)
      ciphertext == secretbox(eventPayload, key.messageKey)
      payload == [v |-> 1, type |-> "dm_message", conversationId |-> chat.id,
                  messageId |-> IF messageId # <<>> THEN messageId ELSE randomId(c1),
                  fromPubKey |-> state.chatKey, n |-> n, ciphertext |-> ciphertext]
  IN [c |-> IF messageId # <<>> THEN c1 ELSE TookId(c1),
      task |-> [kind |-> "sendEventMessage", pc |-> "publish", chatId |-> chat.id,
                session |-> session, payload |-> payload]]

\* setState((prev) => ({ sessions: { ...prev.sessions, [chat.id]: session } }))
sendEventRecord(c, task) == [c EXCEPT !.st.sessions = Put(@, task.chatId, task.session)]

\* sendEventMessage ends in the error ensureSession throws ("Missing secret
\* key"): there is a peer, no session of the conversation in the state or in
\* the database, and no key to seed one with.
sendEventThrows(c, chat) ==
  /\ \E key \in Range(chat.participants) : key # c.st.chatKey
  /\ ~HasSession(c, chat.id)
  /\ ~Unlocked(c.st)

sendEventMessage(c, chat, eventPayload, messageId) ==
  LET state == c.st
      peers == SelectIdx(chat.participants, LAMBDA key : key # state.chatKey)
      sealed == sendEventSealed(c, chat, eventPayload, messageId)
      c2 == sendMessagePublish(sealed.c, sealed.task)
      c3 == sendMessageSetSession(c2, sealed.task)
  IN IF peers = {} THEN c
     ELSE IF sendEventThrows(c, chat) THEN c
     ELSE CountSend(sendEventRecord(c3, sealed.task), chat.id)

sendTyping(c, chatId, isTyping) ==
  LET chat == FindChat(c.st, chatId)
      inner == [kind |-> "typing", isTyping |-> isTyping]
  IN IF ~HasChat(c.st, chatId) THEN Outcome(c, "return")
     ELSE IF chat.kind = "group" THEN Outcome(sendGroupMessage(c, chat, inner, <<>>), "sent")
     ELSE IF sendEventThrows(c, chat) THEN Outcome(c, "throw")
     ELSE Outcome(sendEventMessage(c, chat, inner, <<>>), "sent")

ReactionRecord(id, messageId, fromPubKey, emoji) ==
  [id |-> id, messageId |-> messageId, fromPubKey |-> fromPubKey, emoji |-> emoji]

sendReaction(c, chatId, messageId, emoji) ==
  LET state == c.st
      chat == FindChat(state, chatId)
      reaction == ReactionRecord(randomId(c), messageId, state.chatKey, emoji)
      c1 == setReaction(TookId(c), reaction)
      c2 == [c1 EXCEPT !.st.reactions =
               Put(@, messageId,
                   Append(IF messageId \in DOMAIN @ THEN @[messageId] ELSE <<>>, reaction))]
      inner == [kind |-> "reaction", messageId |-> messageId, emoji |-> emoji]
  IN IF ~HasChat(state, chatId) \/ state.chatKey = "" THEN Outcome(c, "return")
     ELSE IF chat.kind = "group" THEN Outcome(sendGroupMessage(c2, chat, inner, <<>>), "sent")
     ELSE IF sendEventThrows(c2, chat) THEN Outcome(c2, "throw")
     ELSE Outcome(sendEventMessage(c2, chat, inner, <<>>), "sent")

HasMessage(messages, chatId, messageId) ==
  \E m \in Range(messageListForChat(messages, chatId)) : m.id = messageId

\* The end of sendEdit and of sendDelete, and the kinds edit and delete of
\* handleInnerPayload: the record of the message is changed, in the database
\* when the state holds it, and in the state.
updateOwnMessage(c, chatId, messageId, updater(_)) ==
  LET c1 == IF HasMessage(c.st.messages, chatId, messageId)
              THEN setMessage(c, updater(FindFirstMessage(c.st.messages, chatId, messageId)))
              ELSE c
  IN [c1 EXCEPT !.st.messages = mergeMessageUpdate(@, chatId, messageId, updater)]

sendEdit(c, chatId, messageId, body) ==
  LET chat == FindChat(c.st, chatId)
      inner == [kind |-> "edit", messageId |-> messageId, body |-> body]
      c1 == sendEventMessage(c, chat, inner, <<>>)
  IN IF ~HasChat(c.st, chatId) THEN Outcome(c, "return")
     ELSE IF chat.kind = "group" THEN Outcome(sendGroupMessage(c, chat, inner, <<>>), "sent")
     ELSE IF sendEventThrows(c, chat) THEN Outcome(c, "throw")
     ELSE Outcome(updateOwnMessage(c1, chatId, messageId,
                                   LAMBDA item : [item EXCEPT !.body = body, !.edited = TRUE]),
                  "sent")

sendDelete(c, chatId, messageId) ==
  LET chat == FindChat(c.st, chatId)
      inner == [kind |-> "delete", messageId |-> messageId]
      c1 == sendEventMessage(c, chat, inner, <<>>)
  IN IF ~HasChat(c.st, chatId) THEN Outcome(c, "return")
     ELSE IF chat.kind = "group" THEN Outcome(sendGroupMessage(c, chat, inner, <<>>), "sent")
     ELSE IF sendEventThrows(c, chat) THEN Outcome(c, "throw")
     ELSE Outcome(updateOwnMessage(c1, chatId, messageId,
                                   LAMBDA item : [item EXCEPT !.deleted = TRUE, !.body = ""]),
                  "sent")

\* sendGroupMessage or sendEventMessage, as the kind of the chat says
sendToChat(c, chat, inner, messageId) ==
  IF chat.kind = "group" THEN sendGroupMessage(c, chat, inner, messageId)
  ELSE sendEventMessage(c, chat, inner, messageId)

\* Math.ceil(buffer.length / ATTACHMENT_CHUNK_SIZE): the buffer of a file is
\* the sequence of its blocks of ATTACHMENT_CHUNK_SIZE bytes (the last one may
\* be shorter, none is empty).
totalChunksOf(file) == Len(file.blocks)

\* The loop of sendAttachment over the chunks of the file, from index on.
RECURSIVE sendChunks(_, _, _, _, _)
sendChunks(c, chat, attachmentId, file, index) ==
  IF index >= totalChunksOf(file) THEN c
  ELSE sendChunks(sendToChat(c, chat,
                             [kind |-> "attachment_chunk", attachmentId |-> attachmentId,
                              index |-> index, totalChunks |-> totalChunksOf(file),
                              data |-> <<file.blocks[index + 1]>>],
                             <<>>),
                  chat, attachmentId, file, index + 1)

\* The middle of sendAttachment, between the send of the meta payload and
\* the loop over the chunks: the message and the attachment are stored in the
\* database and in the state.
storeOwnAttachment(c, chatId, messageId, attachmentId, file) ==
  LET message == [MessageRecord(messageId, chatId, "attachment_meta",
                                IF c.st.chatKey # "" THEN c.st.chatKey ELSE "me",
                                file.name, "sent", -1)
                    EXCEPT !.attachmentId = <<attachmentId>>]
      attachment == [id |-> attachmentId, messageId |-> messageId, name |-> file.name,
                     totalChunks |-> totalChunksOf(file),
                     receivedChunks |-> totalChunksOf(file),
                     complete |-> TRUE, data |-> <<file.blocks>>]
  IN [setAttachment(setMessage(c, message), attachment)
        EXCEPT !.st.messages = updateMessageList(@, chatId, message),
               !.st.attachments = Put(@, attachmentId, attachment)]

\* file: its name and its content
sendAttachment(c, chatId, file) ==
  LET chat == FindChat(c.st, chatId)
      messageId == randomId(c)
      attachmentId == randomId(TookId(c))
      meta == [kind |-> "attachment_meta", attachmentId |-> attachmentId, name |-> file.name,
               totalChunks |-> totalChunksOf(file)]
  IN IF ~HasChat(c.st, chatId) \/ c.st.chatKey = "" THEN Outcome(c, "return")
     ELSE IF chat.kind = "dm" /\ sendEventThrows(c, chat) THEN Outcome(c, "throw")
     ELSE Outcome(sendChunks(storeOwnAttachment(sendToChat(TookId(TookId(c)), chat, meta,
                                                           messageId),
                                                chatId, messageId, attachmentId, file),
                             chat, attachmentId, file, 0),
                  "sent")

\* Variant: the notice is sealed and published first, the session is reset
\* afterwards.
rekeySession_SealsFirst(c, chatId) ==
  LET state == c.st
      chat == FindChat(state, chatId)
      peers == SelectIdx(chat.participants, LAMBDA key : key # state.chatKey)
      peer == chat.participants[Min(peers)]
      rekeyPayload == [kind |-> "rekey"]
      c0 == IF chat.kind = "group" THEN sendGroupMessage(c, chat, rekeyPayload, <<>>)
            ELSE sendEventMessage(c, chat, rekeyPayload, <<>>)
      c1 == resetSession(c0, chatId, chat.kind, peer)
      c3 == [TookId(c1) EXCEPT
               !.st.messages =
                 updateMessageList(@, chatId,
                                   createSystemMessage(c1, chatId, "Session rekeyed."))]
  IN IF ~HasChat(state, chatId) \/ state.chatKey = "" THEN Outcome(c, "return")
     ELSE IF peers = {} THEN Outcome(c, "return")
     ELSE Outcome(c3, "rekeyed")

rekeySession(c, chatId) ==
  LET state == c.st
      chat == FindChat(state, chatId)
      peers == SelectIdx(chat.participants, LAMBDA key : key # state.chatKey)
      peer == chat.participants[Min(peers)]
      c1 == resetSession(c, chatId, chat.kind, peer)
      session == c1.st.sessions[chatId]
      c2 == setSession(c1, session)
      c3 == [TookId(c2) EXCEPT
               !.st.sessions = Put(@, chatId, session),
               !.st.messages =
                 updateMessageList(@, chatId,
                                   createSystemMessage(c2, chatId, "Session rekeyed."))]
      rekeyPayload == [kind |-> "rekey"]
  IN IF ~HasChat(state, chatId) \/ state.chatKey = "" THEN Outcome(c, "return")
     ELSE IF peers = {} THEN Outcome(c, "return")
     ELSE IF chat.kind = "group"
       THEN Outcome(sendGroupMessage(c3, chat, rekeyPayload, <<>>), "rekeyed")
     ELSE Outcome(sendEventMessage(c3, chat, rekeyPayload, <<>>), "rekeyed")

\* Array.from(new Set(list)): the first occurrence of each element, in order
Dedupe(list) ==
  LET firsts == {i \in DOMAIN list : \A j \in DOMAIN list : list[j] = list[i] => i <= j}
      SortedIdx == [k \in 1 .. Cardinality(firsts) |->
                      CHOOSE i \in firsts : Cardinality({j \in firsts : j < i}) = k - 1]
  IN [k \in DOMAIN SortedIdx |-> list[SortedIdx[k]]]

\* The invitations createGroup publishes, to the members from the i-th on.
RECURSIVE publishInvites(_, _, _, _, _)
publishInvites(c, state, invite, fullMembers, i) ==
  IF i > Len(fullMembers) THEN c
  ELSE LET member == fullMembers[i]
           payload == [v |-> 1, type |-> "group_invite", fromPubKey |-> state.chatKey,
                       toPubKey |-> member,
                       ciphertext |-> box(invite, member, state.unlockedSecretKey)]
       IN IF member = state.chatKey THEN publishInvites(c, state, invite, fullMembers, i + 1)
          ELSE publishInvites(publishPayload(c, inboxTopic(member), payload), state, invite,
                              fullMembers, i + 1)

createGroup(c, name, members) ==
  LET state == c.st
      groupId == conversationIdFromPubKeys(GroupPool[c.me][c.groups + 1], "now")
      fullMembers == Dedupe(<<state.chatKey>> \o members)
      chat == ChatRecord(groupId, "group", name, fullMembers)
      c1 == [setChat(c, chat) EXCEPT !.st.chats = Append(@, chat)]
      c2 == ensureSubscription(c1, groupTopic(groupId))
      invite == [groupId |-> groupId, name |-> name, members |-> fullMembers]
  IN IF ~Unlocked(state) THEN Outcome(c, "return")
     ELSE Outcome(publishInvites(c2, state, invite, fullMembers, 1), "created")

(***************************************************************************)
(* The inbound pipeline: handleIncoming and what it calls.                 *)
(***************************************************************************)
\* The chunks of the keys given, concatenated in ascending order of the keys.
RECURSIVE mergeChunks(_, _)
mergeChunks(chunks, keys) ==
  IF keys = {} THEN <<>>
  ELSE chunks[Min(keys)] \o mergeChunks(chunks, keys \ {Min(keys)})

\* handleInnerPayload, kind attachment_chunk: the chunk is added to the record
\* of the attachment, which is complete once every chunk is there. A field the
\* record does not hold (data, before the attachment is complete) is <<>>, a
\* field it holds is <<the value>>.
applyAttachmentChunk(c, inner) ==
  LET attachment == IF inner.attachmentId \in DOMAIN c.st.attachments
                      THEN c.st.attachments[inner.attachmentId]
                    ELSE c.db.attachments[inner.attachmentId]
      nextChunks == Put(IF "chunks" \in DOMAIN attachment THEN attachment.chunks
                        ELSE EmptyMap,
                        inner.index, inner.data)
      receivedChunks == Cardinality(DOMAIN nextChunks)
      complete == receivedChunks = attachment.totalChunks
      updated == [id |-> attachment.id, messageId |-> attachment.messageId,
                  name |-> attachment.name, totalChunks |-> attachment.totalChunks,
                  receivedChunks |-> receivedChunks, complete |-> complete,
                  chunks |-> nextChunks,
                  data |-> IF complete THEN <<mergeChunks(nextChunks, DOMAIN nextChunks)>>
                           ELSE attachment.data]
  IN IF inner.attachmentId \notin DOMAIN c.st.attachments \cup DOMAIN c.db.attachments
       THEN Outcome(c, "return")
     ELSE Outcome([setAttachment(c, updated) EXCEPT
                     !.st.attachments = Put(@, updated.id, updated)],
                  "applied")

\* handleInnerPayload, kind attachment_meta
applyAttachmentMeta(c, chatId, fromPubKey, inner, messageId) ==
  LET id == IF messageId # <<>> THEN messageId ELSE randomId(c)
      message == [MessageRecord(id, chatId, "attachment_meta", fromPubKey, inner.name,
                                "delivered", -1)
                    EXCEPT !.attachmentId = <<inner.attachmentId>>]
      attachment == [id |-> inner.attachmentId, messageId |-> id, name |-> inner.name,
                     totalChunks |-> inner.totalChunks, receivedChunks |-> 0,
                     complete |-> FALSE, chunks |-> EmptyMap, data |-> <<>>]
      c1 == setAttachment(setMessage(IF messageId # <<>> THEN c ELSE TookId(c), message),
                          attachment)
  IN Outcome([c1 EXCEPT !.st.messages = updateMessageList(@, chatId, message),
                        !.st.attachments = Put(@, attachment.id, attachment)],
             "applied")

\* handleInnerPayload, kind reaction
applyReaction(c, fromPubKey, inner) ==
  LET reaction == ReactionRecord(randomId(c), inner.messageId, fromPubKey, inner.emoji)
      c1 == setReaction(TookId(c), reaction)
  IN Outcome([c1 EXCEPT !.st.reactions =
                Put(@, inner.messageId,
                    Append(IF inner.messageId \in DOMAIN @ THEN @[inner.messageId] ELSE <<>>,
                           reaction))],
             "applied")

handleInnerPayload(c, chatId, fromPubKey, inner, messageId) ==
  LET state == c.st
      message == MessageRecord(messageId, chatId, "text", fromPubKey, inner.body,
                               "delivered", -1)
      isActive == state.activeChatId = <<chatId>>
      c1 == setMessage(c, message)
      c2 == [c1 EXCEPT
               !.st.messages = updateMessageList(@, chatId, message),
               !.st.chats = [i \in DOMAIN @ |->
                               IF @[i].id = chatId
                                 THEN [@[i] EXCEPT !.lastMessageAt = 1,
                                                   !.unreadCount =
                                                     IF isActive THEN 0 ELSE @ + 1]
                                 ELSE @[i]]]
      chat == FindChat(state, chatId)
      r1 == resetSession(c, chatId, chat.kind, fromPubKey)
      r2 == [TookId(r1) EXCEPT
               !.st.messages =
                 updateMessageList(@, chatId,
                                   createSystemMessage(r1, chatId,
                                                       "Session rekeyed by peer."))]
  IN IF inner.kind = "text" THEN Outcome(c2, "applied")
     ELSE IF inner.kind = "reaction" THEN applyReaction(c, fromPubKey, inner)
     ELSE IF inner.kind = "edit"
       THEN Outcome(updateOwnMessage(c, chatId, inner.messageId,
                                     LAMBDA item : [item EXCEPT !.body = inner.body,
                                                                !.edited = TRUE]),
                    "applied")
     ELSE IF inner.kind = "delete"
       THEN Outcome(updateOwnMessage(c, chatId, inner.messageId,
                                     LAMBDA item : [item EXCEPT !.deleted = TRUE, !.body = ""]),
                    "applied")
     ELSE IF inner.kind = "attachment_meta"
       THEN applyAttachmentMeta(c, chatId, fromPubKey, inner, messageId)
     ELSE IF inner.kind = "attachment_chunk" THEN applyAttachmentChunk(c, inner)
     ELSE IF inner.kind = "rekey"
       THEN IF HasChat(state, chatId) THEN Outcome(r2, "rekeyed") ELSE Outcome(c, "return")
     ELSE Outcome(c, "ignored")

\* The two branches of handleEncryptedMessage that end in a key mismatch.
KeyMismatch(c, chatId, why) ==
  LET keyMismatch == createSystemMessage(c, chatId, "Key mismatch. Rekey to continue.")
      c1 == setMessage(TookId(c), keyMismatch)
  IN Outcome([c1 EXCEPT !.st.messages =
                updateMessageList(@, chatId, [keyMismatch EXCEPT !.keyMismatch = TRUE])],
             why)

\* handleEncryptedMessage from deriveReceiveKey to the decrypted inner payload:
\* the session to persist is the next session only when the box opens.
decryptEnvelope(session, n, ciphertext) ==
  LET r == deriveReceiveKey(session, n, MAX_SKIPPED_KEYS)
      decrypted == secretboxOpen(ciphertext, r.messageKey[1])
  IN IF r.messageKey = <<>>
       THEN [out |-> "nokey", session |-> session, inner |-> <<>>, key |-> <<>>,
             fromCache |-> FALSE]
     ELSE IF decrypted = <<>>
       THEN [out |-> "auth", session |-> session, inner |-> <<>>, key |-> r.messageKey,
             fromCache |-> r.fromCache]
     ELSE [out |-> "ok", session |-> r.nextSession, inner |-> decrypted, key |-> r.messageKey,
           fromCache |-> r.fromCache]

\* Variant: the session the ratchet returned is stored before the box is opened.
handleEncryptedMessage_AdvancesOnFailure(c, payload) ==
  LET state == c.st
      chatId == payload.conversationId
      fromPubKey == payload.fromPubKey
      session == ensuredSession(c, chatId, "dm", fromPubKey)
      c1 == ensureSession(c, chatId, "dm", fromPubKey)
      d == deriveReceiveKey(session, payload.n, MAX_SKIPPED_KEYS)
      r == decryptEnvelope(session, payload.n, payload.ciphertext)
      c2 == setSession(c1, d.nextSession)
      c3 == [c2 EXCEPT !.st.sessions = Put(@, chatId, d.nextSession)]
      c4 == publishPayload(c3, inboxTopic(fromPubKey),
                           [v |-> 1, type |-> "dm_ack", conversationId |-> chatId,
                            messageId |-> payload.messageId, fromPubKey |-> state.chatKey,
                            toPubKey |-> fromPubKey])
  IN IF fromPubKey = state.chatKey THEN Outcome(c, "own")
     ELSE IF ~HasChat(state, chatId) THEN Outcome(c, "nochat")
     ELSE IF ~HasSession(c, chatId) /\ base58Throws(fromPubKey) THEN Outcome(c, "throw")
     ELSE IF r.out # "ok" THEN KeyMismatch(c3, chatId, r.out)
     ELSE IF base58Throws(fromPubKey) THEN Outcome(c3, "throw")
     ELSE handleInnerPayload(c4, chatId, fromPubKey, r.inner[1], payload.messageId)

handleEncryptedMessage(c, payload) ==
  LET state == c.st
      chatId == payload.conversationId
      fromPubKey == payload.fromPubKey
      session == ensuredSession(c, chatId, "dm", fromPubKey)
      c1 == ensureSession(c, chatId, "dm", fromPubKey)
      r == decryptEnvelope(session, payload.n, payload.ciphertext)
      c2 == setSession(c1, r.session)
      c3 == [c2 EXCEPT !.st.sessions = Put(@, chatId, r.session)]
      c4 == publishPayload(c3, inboxTopic(fromPubKey),
                           [v |-> 1, type |-> "dm_ack", conversationId |-> chatId,
                            messageId |-> payload.messageId, fromPubKey |-> state.chatKey,
                            toPubKey |-> fromPubKey])
  IN IF fromPubKey = state.chatKey THEN Outcome(c, "own")
     ELSE IF ~HasChat(state, chatId) THEN Outcome(c, "nochat")
     ELSE IF ~HasSession(c, chatId) /\ base58Throws(fromPubKey) THEN Outcome(c, "throw")
     ELSE IF r.out # "ok" THEN KeyMismatch(c1, chatId, r.out)
     ELSE IF base58Throws(fromPubKey) THEN Outcome(c3, "throw")
     ELSE handleInnerPayload(c4, chatId, fromPubKey, r.inner[1], payload.messageId)

\* The reply of the chat_request branch to the sender of the request.
chatRequestReply(c, message, type) ==
  [v |-> 1, type |-> type, requestId |-> message.requestId,
   fromPubKey |-> c.st.chatKey, toPubKey |-> message.fromPubKey,
   conversationId |-> conversationIdFromPubKeys(c.st.chatKey, message.fromPubKey)]

\* handleIncoming, type chat_request: the request is recorded as pending.
storeChatRequest(c, message) ==
  LET state == c.st
      fromPubKey == message.fromPubKey
      introBytes == boxOpen(message.ciphertext, fromPubKey, state.unlockedSecretKey)
      intro == IF introBytes # <<>> THEN introBytes[1] ELSE "Unable to decrypt intro."
      request == RequestRecord(message.requestId, "dm", fromPubKey, state.chatKey, intro,
                               "pending")
      c1 == setRequestState(setRequest(c, request), request.id, "pending")
  IN Outcome([c1 EXCEPT !.st.requests =
                Append(FilterSeq(@, LAMBDA item : item.id # request.id), request)],
             "stored")

\* Variant: the accept is emitted again and the request is recorded as well.
reemitChatAccept_AlsoStores(c, message) ==
  Outcome(storeChatRequest(publishPayload(c, inboxTopic(message.fromPubKey),
                                          chatRequestReply(c, message, "chat_accept")),
                           message),
          "reaccept")

\* handleIncoming, type chat_request, an accepted chat exists
reemitChatAccept(c, message) ==
  Outcome(publishPayload(c, inboxTopic(message.fromPubKey),
                         chatRequestReply(c, message, "chat_accept")),
          "reaccept")

\* Variant: a request of a blocked sender is recorded all the same.
emitChatBlocked_AlsoStores(c, message) ==
  Outcome(storeChatRequest(publishPayload(c, inboxTopic(message.fromPubKey),
                                          chatRequestReply(c, message, "chat_blocked")),
                           message),
          "blocked")

\* handleIncoming, type chat_request, a blocked request of the sender exists
emitChatBlocked(c, message) ==
  Outcome(publishPayload(c, inboxTopic(message.fromPubKey),
                         chatRequestReply(c, message, "chat_blocked")),
          "blocked")

\* handleIncoming, type chat_request
handleChatRequest(c, message) ==
  LET state == c.st
      fromPubKey == message.fromPubKey
      chatId == conversationIdFromPubKeys(state.chatKey, fromPubKey)
      acceptedChat == \E chat \in Range(state.chats) : chat.id = chatId /\ chat.accepted
      blockedRequest == \E item \in Range(state.requests) :
                           /\ item.fromPubKey = fromPubKey
                           /\ item.toPubKey = state.chatKey
                           /\ item.status = "blocked"
  IN IF acceptedChat
       THEN IF base58Throws(fromPubKey) THEN Outcome(c, "throw")
            ELSE reemitChatAccept(c, message)
     ELSE IF blockedRequest
       THEN IF base58Throws(fromPubKey) THEN Outcome(c, "throw")
            ELSE emitChatBlocked(c, message)
     ELSE IF base64Throws(message.ciphertext) \/ base58Throws(fromPubKey)
       THEN Outcome(c, "throw")
     ELSE storeChatRequest(c, message)

\* handleIncoming, type chat_accept, up to the call of ensureSubscription
handleChatAcceptChat(c, message) ==
  LET state == c.st
      peer == message.fromPubKey
      chatId == conversationIdFromPubKeys(state.chatKey, peer)
      chat == ChatRecord(chatId, "dm", peer, <<state.chatKey, peer>>)
  IN [setChat(c, chat) EXCEPT !.st.chats =
        Append(FilterSeq(@, LAMBDA item : item.id # chatId), chat)]

\* handleIncoming, type chat_accept, from the return of subscribeTopic on;
\* state is the state the handler read when it started.
handleChatAcceptSession(c, state, message) ==
  LET peer == message.fromPubKey
      chatId == conversationIdFromPubKeys(state.chatKey, peer)
      c2 == ensureSubscription(c, dmTopic(chatId))
      c3 == ensureSession(c2, chatId, "dm", peer)
      existingRequest == HasRequest(state, message.requestId)
      updated == [FindRequest(state, message.requestId) EXCEPT !.status = "accepted"]
      c4 == IF existingRequest
              THEN [setRequestState(setRequest(c3, updated), updated.id, "accepted") EXCEPT
                      !.st.requests =
                        [i \in DOMAIN @ |-> IF @[i].id = updated.id THEN updated ELSE @[i]]]
              ELSE c3
      systemMessage == createSystemMessage(c4, chatId, "Chat request accepted.")
      c5 == [setMessage(TookId(c4), systemMessage) EXCEPT
               !.st.messages = updateMessageList(@, chatId, systemMessage)]
  IN IF ~HasSession(c2, chatId) /\ base58Throws(peer) THEN Outcome(c2, "throw")
     ELSE IF messageListForChat(state.messages, chatId) = <<>> THEN Outcome(c5, "accepted")
     ELSE Outcome(c4, "accepted")

\* handleIncoming, type chat_accept
handleChatAccept(c, message) ==
  handleChatAcceptSession(handleChatAcceptChat(c, message), c.st, message)

\* handleIncoming, types chat_declined and chat_blocked
handleChatRefused(c, message) ==
  LET state == c.st
      requestId == message.requestId
      status == IF message.type = "chat_blocked" THEN "blocked" ELSE "declined"
      updated == [FindRequest(state, requestId) EXCEPT !.status = status]
      c1 == IF HasRequest(state, requestId)
              THEN setRequestState(setRequest(c, updated), requestId, status)
              ELSE c
  IN Outcome([c1 EXCEPT !.st.requests =
                [i \in DOMAIN @ |->
                   IF @[i].id = requestId THEN [@[i] EXCEPT !.status = status] ELSE @[i]]],
             status)

\* handleIncoming, type dm_ack: the record the handler finds in the state it read
dmAckExisting(state, message) ==
  {m \in Range(messageListForChat(state.messages, message.conversationId)) :
     m.id = message.messageId}

\* await setMessage({ ...existing, status: "delivered" })
dmAckSetMessage(c, state, message) ==
  LET existing == FindFirstMessage(state.messages, message.conversationId, message.messageId)
  IN IF dmAckExisting(state, message) # {}
       THEN setMessage(c, [existing EXCEPT !.status = "delivered"])
     ELSE c

\* setState((prev) => ({ messages: mergeMessageUpdate(...) }))
dmAckMerge(c, message) ==
  Outcome([c EXCEPT !.st.messages =
             mergeMessageUpdate(@, message.conversationId, message.messageId,
                                LAMBDA item : [item EXCEPT !.status = "delivered"])],
          "acked")

\* handleIncoming, type dm_ack
handleDmAck(c, message) == dmAckMerge(dmAckSetMessage(c, c.st, message), message)

\* `${invite.name} (${invite.members.length} members)`
InviteIntro(invite) ==
  CASE Len(invite.members) = 2 -> "team (2 members)"
    [] Len(invite.members) = 3 -> "team (3 members)"
    [] OTHER -> "team (n members)"

\* handleIncoming, type group_invite
handleGroupInvite(c, message) ==
  LET state == c.st
      fromPubKey == message.fromPubKey
      introBytes == boxOpen(message.ciphertext, fromPubKey, state.unlockedSecretKey)
      invite == introBytes[1]
      request == [id |-> invite.groupId \o <<fromPubKey>>, kind |-> "group",
                  fromPubKey |-> fromPubKey, toPubKey |-> state.chatKey,
                  intro |-> InviteIntro(invite), status |-> "pending",
                  groupId |-> <<invite.groupId>>, groupName |-> invite.name,
                  members |-> invite.members]
      c1 == setRequestState(setRequest(c, request), request.id, "pending")
  IN IF base64Throws(message.ciphertext) \/ base58Throws(fromPubKey)
       THEN Outcome(c, "throw")
     ELSE IF introBytes = <<>> THEN Outcome(c, "return")
     ELSE Outcome([c1 EXCEPT !.st.requests =
                     Append(FilterSeq(@, LAMBDA item : item.id # request.id), request)],
                  "stored")

handleGroupMessage(c, payload) ==
  LET state == c.st
      groupId == payload.groupId
      entries == SelectIdx(payload.sealed, LAMBDA item : item.toPubKey = state.chatKey)
      entry == payload.sealed[Min(entries)]
      convId == groupSessionId(groupId, state.chatKey, payload.fromPubKey)
      session == ensuredSession(c, convId, "group", payload.fromPubKey)
      c1 == ensureSession(c, convId, "group", payload.fromPubKey)
      r == deriveReceiveKey(session, entry.n, MAX_SKIPPED_KEYS)
      decrypted == secretboxOpen(entry.ciphertext, r.messageKey[1])
      c2 == setSession(c1, r.nextSession)
      c3 == [c2 EXCEPT !.st.sessions = Put(@, convId, r.nextSession)]
  IN IF state.chatKey = "" THEN Outcome(c, "return")
     ELSE IF ~HasChat(state, groupId) THEN Outcome(c, "nochat")
     ELSE IF entries = {} THEN Outcome(c, "noentry")
     ELSE IF r.messageKey = <<>> THEN Outcome(c1, "nokey")
     ELSE IF decrypted = <<>> THEN Outcome(c1, "auth")
     ELSE handleInnerPayload(c3, groupId, payload.fromPubKey, decrypted[1], payload.messageId)

\* Variant: envelopes are dispatched whether or not the identity is unlocked.
handleIncoming_IgnoresLock(c, message) ==
  IF message.type = "chat_request" THEN handleChatRequest(c, message)
  ELSE IF message.type = "chat_accept" THEN handleChatAccept(c, message)
  ELSE IF message.type \in {"chat_declined", "chat_blocked"} THEN handleChatRefused(c, message)
  ELSE IF message.type = "group_invite" THEN handleGroupInvite(c, message)
  ELSE IF message.type = "dm_ack" THEN handleDmAck(c, message)
  ELSE IF message.type = "dm_message" THEN handleEncryptedMessage(c, message)
  ELSE IF message.type = "group_message" THEN handleGroupMessage(c, message)
  ELSE Outcome(c, "ignored")

handleIncoming(c, message) ==
  LET state == c.st
  IN IF state.chatKey = "" \/ state.unlockedSecretKey = "" \/ state.identity = <<>>
       THEN Outcome(c, "locked")
     ELSE IF message.type = "chat_request" THEN handleChatRequest(c, message)
     ELSE IF message.type = "chat_accept" THEN handleChatAccept(c, message)
     ELSE IF message.type \in {"chat_declined", "chat_blocked"} THEN handleChatRefused(c, message)
     ELSE IF message.type = "group_invite" THEN handleGroupInvite(c, message)
     ELSE IF message.type = "dm_ack" THEN handleDmAck(c, message)
     ELSE IF message.type = "dm_message" THEN handleEncryptedMessage(c, message)
     ELSE IF message.type = "group_message" THEN handleGroupMessage(c, message)
     ELSE Outcome(c, "ignored")

\* handleIncoming on the bytes of a payload: what cannot be parsed, or has no
\* type, is dropped before anything else is looked at.
handleIncomingPayload(c, payloadBytes) ==
  LET message == decodePayload(payloadBytes)
  IN IF message = <<>> THEN Outcome(c, "dropped")
     ELSE IF "type" \notin DOMAIN message[1] THEN Outcome(c, "dropped")
     ELSE handleIncoming(c, message[1])

(***************************************************************************)
(* The transport: an envelope published on a content topic is handed to    *)
(* every process subscribed to that topic at that moment (the publisher    *)
(* included: it hears its own envelopes). Delivery is best effort: an      *)
(* envelope may stay undelivered for ever (it is lost) or arrive late, in   *)
(* any order.                                                              *)
(***************************************************************************)
Deliveries(c) ==
  {[to |-> v, env |-> c.pub[i].env, again |-> FALSE] :
     <<v, i>> \in {x \in Users \X DOMAIN c.pub :
                     IF x[1] = c.me THEN c.pub[x[2]].echo
                     ELSE c.pub[x[2]].topic \in subscribedTopics[x[1]]}}

\* The handler's writes and the envelopes it published.
Write(c, pending) ==
  /\ c.nid <= MaxIds
  /\ store' = [store EXCEPT ![c.me] = c.st]
  /\ db' = [db EXCEPT ![c.me] = c.db]
  /\ subscribedTopics' = [subscribedTopics EXCEPT ![c.me] = c.subs]
  /\ nextId' = [nextId EXCEPT ![c.me] = c.nid]
  /\ ghost' = [ghost EXCEPT ![c.me] = c.gh]
  /\ net' = pending \cup Deliveries(c)

\* The handler's writes, the envelopes it published, and the record of the step.
Commit(c, op, env, pending) ==
  /\ Write(c, pending)
  /\ last' = [op |-> op, user |-> c.me, env |-> env, out |-> c.out, pub |-> c.pub]

(***************************************************************************)
(* The actions.                                                            *)
(***************************************************************************)
\* One identity per installation.
CreateIdentity(u) ==
  /\ store[u].identity = <<>>
  /\ store[u].chatKey = ""
  /\ Commit(createIdentity(Ctx(u), "pass"), "createIdentity", NoEnvelope, net)
  /\ UNCHANGED <<forged, requested, created, rekeyed, duplicated>>

\* A user asks another user for a chat (a run explores chat requests or groups,
\* not both).
SendChatRequest(u, to, intro) ==
  /\ Unlocked(store[u])
  /\ store[u].inboxTopic # <<>>
  /\ to # u
  /\ requested < MaxRequests
  /\ created = 0
  /\ Commit(sendChatRequest(Ctx(u), to, intro), "sendChatRequest", NoEnvelope, net)
  /\ requested' = requested + 1
  /\ UNCHANGED <<forged, created, rekeyed, duplicated>>

\* The user answers one of the pending requests addressed to them.
RespondToRequest(u, requestId, response) ==
  /\ Unlocked(store[u])
  /\ \E r \in Range(store[u].requests) :
       r.id = requestId /\ r.toPubKey = store[u].chatKey /\ r.status = "pending"
  /\ Commit(respondToRequest(Ctx(u), requestId, response), "respondToRequest", NoEnvelope, net)
  /\ UNCHANGED <<forged, requested, created, rekeyed, duplicated>>

\* The texts the users have sent so far.
SentTexts ==
  UNION {{m \in UNION {Range(store[u].messages[k]) : k \in DOMAIN store[u].messages} :
            m.type = "text" /\ m.fromPubKey = u} : u \in Users}

\* A user sends a text to one of their accepted chats.
SendMessage(u, chatId, body) ==
  /\ Unlocked(store[u])
  /\ \E chat \in Range(store[u].chats) : chat.id = chatId /\ chat.accepted
  /\ Cardinality(SentTexts) + rekeyed < MaxSends
  /\ Commit(sendMessage(Ctx(u), chatId, body), "sendMessage", NoEnvelope, net)
  /\ UNCHANGED <<forged, requested, created, rekeyed, duplicated>>

\* The member lists a user may invite: the other user, alone or with the outsider.
MemberLists(u) == UNION {{<<v>>, <<v, Outsider>>} : v \in Users \ {u}}

\* A user creates a group.
CreateGroup(u, name, members) ==
  /\ Unlocked(store[u])
  /\ created < MaxGroups
  /\ requested = 0
  /\ Commit(createGroup(Ctx(u), name, members), "createGroup", NoEnvelope, net)
  /\ created' = created + 1
  /\ UNCHANGED <<forged, requested, rekeyed, duplicated>>

\* A user rekeys one of their chats.
RekeySession(u, chatId) ==
  /\ Unlocked(store[u])
  /\ HasChat(store[u], chatId)
  /\ Cardinality(SentTexts) + rekeyed < MaxSends
  /\ Commit(rekeySession(Ctx(u), chatId), "rekeySession",
            [type |-> "none", chatId |-> chatId], net)
  /\ rekeyed' = rekeyed + 1
  /\ UNCHANGED <<forged, requested, created, duplicated>>

\* The transport hands a pending envelope to its subscriber.
Deliver(d) ==
  /\ d \in net
  /\ Commit(handleIncoming(Ctx(d.to), d.env), "deliver", d.env, net \ {d})
  /\ UNCHANGED <<forged, requested, created, rekeyed, duplicated>>

\* The transport hands a pending envelope to its subscriber and will hand it
\* over once more (downstream duplication; a run explores duplication or
\* forgery, not both).
DeliverTwice(d) ==
  /\ d \in net
  /\ ~d.again
  /\ duplicated < MaxDuplicates
  /\ forged = 0
  /\ Commit(handleIncoming(Ctx(d.to), d.env), "deliver", d.env,
            (net \ {d}) \cup {[d EXCEPT !.again = TRUE]})
  /\ duplicated' = duplicated + 1
  /\ UNCHANGED <<forged, requested, created, rekeyed>>

\* A key nobody in the conversation holds.
JunkKey ==
  [root |-> hkdf({"X"}, <<"X">>, <<"root">>), label |-> <<"send", "X">>, i |-> 0, use |-> "msg"]

ForgedEnvelope(to, from, n) ==
  [v |-> 1, type |-> "dm_message", conversationId |-> conversationIdFromPubKeys(to, from),
   messageId |-> <<"id", "X", "f1">>, fromPubKey |-> from, n |-> n,
   ciphertext |-> secretbox([kind |-> "text", body |-> "forged"], JunkKey)]

\* Anyone can publish on a DM topic: an envelope that names a member of the
\* conversation as its sender, with a counter of the forger's choice, reaches
\* a subscriber of the topic.
DeliverForged(to, from, n) ==
  /\ forged < MaxForged
  /\ duplicated = 0
  /\ from # to
  /\ dmTopic(conversationIdFromPubKeys(to, from)) \in subscribedTopics[to]
  /\ Commit(handleIncoming(Ctx(to), ForgedEnvelope(to, from, n)), "deliver",
            ForgedEnvelope(to, from, n), net)
  /\ forged' = forged + 1
  /\ UNCHANGED <<requested, created, rekeyed, duplicated>>

ForgedCounters == 0 .. 1

StoreNext ==
  \/ \E u \in Users : CreateIdentity(u)
  \/ \E u \in Users, to \in Users, intro \in Intros : SendChatRequest(u, to, intro)
  \/ \E u \in Users, i \in 1 .. MaxIds, response \in {"accepted", "declined", "blocked"} :
       i \in DOMAIN store[u].requests /\ RespondToRequest(u, store[u].requests[i].id, response)
  \/ \E u \in Users, i \in 1 .. MaxIds, body \in Bodies :
       i \in DOMAIN store[u].chats /\ SendMessage(u, store[u].chats[i].id, body)
  \/ \E u \in Users, name \in GroupNames :
       \E members \in MemberLists(u) : CreateGroup(u, name, members)
  \/ \E u \in Users, i \in 1 .. MaxIds :
       i \in DOMAIN store[u].chats /\ RekeySession(u, store[u].chats[i].id)
  \/ \E d \in net : Deliver(d)
  \/ \E d \in net : DeliverTwice(d)
  \/ \E to \in Users, from \in Users, n \in ForgedCounters : DeliverForged(to, from, n)

(***************************************************************************)
(* The ratchet on its own: one sender and one receiver whose sessions were *)
(* seeded for the same conversation. The sender seals a burst of rBurst    *)
(* messages with advanceSend; the receiver is handed some of them, in any  *)
(* order and possibly more than once, and opens each as                    *)
(* handleEncryptedMessage does.                                            *)
(*   rBurst     the number of messages of the burst                        *)
(*   rSender    the sender's session                                       *)
(*   rSealed    counter -> the message key the sender sealed it with       *)
(*   rReceiver  the receiver's session                                     *)
(*   rArrived   the counters handed to the receiver so far                 *)
(*   rRecvs     the number of envelopes handed to the receiver so far      *)
(*   rWindowOk  so far, never more than MAX_SKIPPED_KEYS counters that     *)
(*              have not arrived lay below the receiver's recvN            *)
(*   rLast      the last envelope handed over and what came of it          *)
(***************************************************************************)
VARIABLES rBurst, rSender, rSealed, rReceiver, rArrived, rRecvs, rWindowOk, rLast

ratchetVars == <<rBurst, rSender, rSealed, rReceiver, rArrived, rRecvs, rWindowOk, rLast>>

\* deliveries to the receiver
MaxRecv == 4
\* the sizes of the burst: one that can be delivered whole, one beyond the cache
SmallBurst == 3
BigBurst == 60
BurstSizes == {SmallBurst, BigBurst}

\* The counters of a burst of k that may be handed to the receiver: both ends of
\* the burst, and both sides of each edge of a cache of MAX_SKIPPED_KEYS keys.
Choices(k) ==
  {n \in 0 .. k - 1 :
     \/ n \in {0, 1, k - 2, k - 1}
     \/ n \in {MAX_SKIPPED_KEYS - 1, MAX_SKIPPED_KEYS}
     \/ n \in {k - 2 - MAX_SKIPPED_KEYS, k - 1 - MAX_SKIPPED_KEYS}}

\* What SeedSession reads of the state of a user who holds the key pair named u.
KeyHolder(u) == [unlockedSecretKey |-> u, chatKey |-> PubOf(u)]

RatchetConversation == conversationIdFromPubKeys("A", "B")

\* The counters below recvN that have not arrived.
UnarrivedBelow(session, arrived) == {i \in 0 .. session.recvN - 1 : i \notin arrived}

NoReceive ==
  [n |-> -1, fresh |-> FALSE, recvNBefore |-> 0, cachedBefore |-> FALSE, out |-> "none",
   key |-> <<>>, fromCache |-> FALSE, sessionBefore |-> <<>>]

RatchetIdle ==
  /\ rBurst = 0
  /\ rSender = SeedSession(KeyHolder("A"), RatchetConversation, "dm", "B")
  /\ rSealed = EmptyMap
  /\ rReceiver = SeedSession(KeyHolder("B"), RatchetConversation, "dm", "A")
  /\ rArrived = {}
  /\ rRecvs = 0
  /\ rWindowOk = TRUE
  /\ rLast = NoReceive

RatchetInit ==
  /\ rBurst \in BurstSizes
  /\ rSender = SeedSession(KeyHolder("A"), RatchetConversation, "dm", "B")
  /\ rSealed = EmptyMap
  /\ rReceiver = SeedSession(KeyHolder("B"), RatchetConversation, "dm", "A")
  /\ rArrived = {}
  /\ rRecvs = 0
  /\ rWindowOk = TRUE
  /\ rLast = NoReceive

\* The sender seals the next message of the burst (getSendKey on its session).
RSend ==
  /\ rSender.sendN < rBurst
  /\ LET key == advanceSend(rSender)
     IN /\ rSender' = key.nextSession
        /\ rSealed' = Put(rSealed, messageNumber(key.nextSession), key.messageKey)
  /\ UNCHANGED <<rBurst, rReceiver, rArrived, rRecvs, rWindowOk, rLast>>

\* The receiver is handed the envelope with counter n.
RRecv(n) ==
  /\ n \in DOMAIN rSealed
  /\ rRecvs < MaxRecv
  /\ LET r == decryptEnvelope(rReceiver, n, secretbox([kind |-> "text", body |-> "hello"],
                                                      rSealed[n]))
     IN /\ rReceiver' = r.session
        /\ rArrived' = rArrived \cup {n}
        /\ rWindowOk' = (rWindowOk /\
                         Cardinality(UnarrivedBelow(r.session, rArrived \cup {n}))
                           <= MAX_SKIPPED_KEYS)
        /\ rLast' = [n |-> n, fresh |-> n \notin rArrived, recvNBefore |-> rReceiver.recvN,
                     cachedBefore |-> n \in DOMAIN rReceiver.skippedKeys, out |-> r.out,
                     key |-> r.key, fromCache |-> r.fromCache,
                     sessionBefore |-> <<rReceiver>>]
  /\ rRecvs' = rRecvs + 1
  /\ UNCHANGED <<rBurst, rSender, rSealed>>

RatchetNext ==
  \/ RSend
  \/ \E n \in Choices(rBurst) : RRecv(n)

(***************************************************************************)
(* The store with its suspension points. Every command and every handler   *)
(* of the store is an async function: at an await (a publish, a database   *)
(* write, subscribeTopic) it yields, and other handlers run before it      *)
(* resumes. Here sendMessage and sendTyping on a DM, the dm_ack handler    *)
(* and the chat_accept handler run step by step; the other handlers run in *)
(* one piece.                                                              *)
(*   tasks           per user, the handlers that are suspended: what each  *)
(*                   carries in its local variables, and where it resumes  *)
(*   subscribeCalls  per user, the topics subscribeTopic was called with   *)
(*   begun           the outbound operations begun so far                  *)
(* The variable last keeps the last handler that ran in one piece.         *)
(***************************************************************************)
VARIABLES tasks, subscribeCalls, begun

asyncVars == <<tasks, subscribeCalls, begun>>

AsyncIdle ==
  /\ tasks = [u \in Users |-> <<>>]
  /\ subscribeCalls = [u \in Users |-> <<>>]
  /\ begun = 0

\* The elements of a set, one after the other.
SeqOf(S) ==
  CHOOSE f \in [1 .. Cardinality(S) -> S] : \A i, j \in 1 .. Cardinality(S) : f[i] = f[j] => i = j

RemoveAt(seq, i) == [k \in 1 .. Len(seq) - 1 |-> IF k < i THEN seq[k] ELSE seq[k + 1]]

Suspend(u, task) == tasks' = [tasks EXCEPT ![u] = Append(@, task)]

Resume(u, i, pc) == tasks' = [tasks EXCEPT ![u][i].pc = pc]

Finish(u, i) == tasks' = [tasks EXCEPT ![u] = RemoveAt(@, i)]

\* A handler that runs in one piece calls subscribeTopic for every topic it
\* adds to subscribedTopics.
InOnePiece(Handler) ==
  /\ Handler
  /\ subscribeCalls' =
       [u \in Users |-> subscribeCalls[u] \o SeqOf(subscribedTopics'[u] \ subscribedTopics[u])]
  /\ UNCHANGED <<tasks, begun>>

Counters == <<forged, requested, created, rekeyed, duplicated>>

\* The user whose outbound operations are explored step by step.
Sender == "A"

\* The DM chats a user may send to.
IsAcceptedDm(u, chatId) ==
  /\ Unlocked(store[u])
  /\ \E chat \in Range(store[u].chats) :
       /\ chat.id = chatId
       /\ chat.accepted
       /\ chat.kind = "dm"
       /\ \E key \in Range(chat.participants) : key # store[u].chatKey

\* sendMessage runs up to its first suspension point.
SendMessageBegin(u, chatId, body) ==
  /\ u = Sender
  /\ IsAcceptedDm(u, chatId)
  /\ begun < MaxSends
  /\ LET sealed == sendMessageSealed(Ctx(u), chatId, body)
     IN /\ Write(sealed.c, net)
        /\ Suspend(u, sealed.task)
  /\ begun' = begun + 1
  /\ UNCHANGED <<Counters, subscribeCalls, last>>

\* sendTyping (a keystroke in the composer) runs up to its first suspension
\* point.
SendTypingBegin(u, chatId) ==
  /\ u = Sender
  /\ IsAcceptedDm(u, chatId)
  /\ begun < MaxSends
  /\ LET sealed == sendEventSealed(Ctx(u), FindChat(store[u], chatId),
                                   [kind |-> "typing", isTyping |-> TRUE], <<>>)
     IN /\ Write(sealed.c, net)
        /\ Suspend(u, sealed.task)
  /\ begun' = begun + 1
  /\ UNCHANGED <<Counters, subscribeCalls, last>>

IsSend(task) == task.kind \in {"sendMessage", "sendEventMessage"}

\* await publishPayload(...) of a send
SendPublish(u, i) ==
  /\ IsSend(tasks[u][i])
  /\ tasks[u][i].pc = "publish"
  /\ Write(sendMessagePublish(Ctx(u), tasks[u][i]), net)
  /\ Resume(u, i, "setSession")
  /\ UNCHANGED <<Counters, subscribeCalls, begun, last>>

\* await setSession(session) of a send
SendSetSession(u, i) ==
  /\ IsSend(tasks[u][i])
  /\ tasks[u][i].pc = "setSession"
  /\ Write(sendMessageSetSession(Ctx(u), tasks[u][i]), net)
  /\ Resume(u, i, IF tasks[u][i].kind = "sendMessage" THEN "setMessage" ELSE "record")
  /\ UNCHANGED <<Counters, subscribeCalls, begun, last>>

\* await setMessage(message) of sendMessage
SendSetMessage(u, i) ==
  /\ tasks[u][i].kind = "sendMessage"
  /\ tasks[u][i].pc = "setMessage"
  /\ Write(sendMessageSetMessage(Ctx(u), tasks[u][i]), net)
  /\ Resume(u, i, "record")
  /\ UNCHANGED <<Counters, subscribeCalls, begun, last>>

\* The last step of a send: the state is updated.
SendRecord(u, i) ==
  /\ IsSend(tasks[u][i])
  /\ tasks[u][i].pc = "record"
  /\ Write(IF tasks[u][i].kind = "sendMessage"
             THEN sendMessageRecord(Ctx(u), tasks[u][i])
             ELSE sendEventRecord(Ctx(u), tasks[u][i]),
           net)
  /\ Finish(u, i)
  /\ UNCHANGED <<Counters, subscribeCalls, begun, last>>

\* The handler of the envelope reaches a suspension point at which the model
\* stops it: a dm_ack that finds its record awaits setMessage, a chat_accept
\* for a topic that is not subscribed awaits subscribeTopic.
Suspends(d) ==
  \/ /\ d.env.type = "dm_ack"
     /\ dmAckExisting(store[d.to], d.env) # {}
  \/ /\ d.env.type = "chat_accept"
     /\ dmTopic(conversationIdFromPubKeys(store[d.to].chatKey, d.env.fromPubKey))
          \notin subscribedTopics[d.to]

\* handleIncoming, type dm_ack, up to await setMessage(...)
DmAckBegin(d) ==
  /\ d \in net
  /\ ~Locked(store[d.to])
  /\ d.env.type = "dm_ack"
  /\ dmAckExisting(store[d.to], d.env) # {}
  /\ Write(Ctx(d.to), net \ {d})
  /\ Suspend(d.to, [kind |-> "dm_ack", pc |-> "setMessage", message |-> d.env,
                     state |-> store[d.to]])
  /\ UNCHANGED <<Counters, subscribeCalls, begun, last>>

DmAckSetMessage(u, i) ==
  /\ tasks[u][i].kind = "dm_ack"
  /\ tasks[u][i].pc = "setMessage"
  /\ Write(dmAckSetMessage(Ctx(u), tasks[u][i].state, tasks[u][i].message), net)
  /\ Resume(u, i, "merge")
  /\ UNCHANGED <<Counters, subscribeCalls, begun, last>>

DmAckMerge(u, i) ==
  /\ tasks[u][i].kind = "dm_ack"
  /\ tasks[u][i].pc = "merge"
  /\ Write(dmAckMerge(Ctx(u), tasks[u][i].message), net)
  /\ Finish(u, i)
  /\ UNCHANGED <<Counters, subscribeCalls, begun, last>>

\* handleIncoming, type chat_accept, up to await subscribeTopic(topic, handler)
\* in ensureSubscription: the topic is not in subscribedTopics, and
\* subscribeTopic is called. The transport may hand the envelope over once
\* more (again).
ChatAcceptBegin(d, again) ==
  /\ d \in net
  /\ ~Locked(store[d.to])
  /\ d.env.type = "chat_accept"
  /\ again => ~d.again /\ duplicated < MaxDuplicates
  /\ duplicated' = IF again THEN duplicated + 1 ELSE duplicated
  /\ LET topic == dmTopic(conversationIdFromPubKeys(store[d.to].chatKey, d.env.fromPubKey))
     IN /\ topic \notin subscribedTopics[d.to]
        /\ subscribeCalls' = [subscribeCalls EXCEPT ![d.to] = Append(@, topic)]
  /\ Write(handleChatAcceptChat(Ctx(d.to), d.env),
           IF again THEN (net \ {d}) \cup {[d EXCEPT !.again = TRUE]} ELSE net \ {d})
  /\ Suspend(d.to, [kind |-> "chat_accept", pc |-> "subscribeTopic", message |-> d.env,
                     state |-> store[d.to]])
  /\ UNCHANGED <<forged, requested, created, rekeyed, begun, last>>

\* subscribeTopic returns: subscribedTopics.add(topic), and the rest of the
\* handler.
ChatAcceptResume(u, i) ==
  /\ tasks[u][i].kind = "chat_accept"
  /\ tasks[u][i].pc = "subscribeTopic"
  /\ Write(handleChatAcceptSession(Ctx(u), tasks[u][i].state, tasks[u][i].message), net)
  /\ Finish(u, i)
  /\ UNCHANGED <<Counters, subscribeCalls, begun, last>>

AsyncNext ==
  \/ \E u \in Users : InOnePiece(CreateIdentity(u))
  \/ \E u \in Users, to \in Users, intro \in Intros :
       InOnePiece(SendChatRequest(u, to, intro))
  \/ \E u \in Users, i \in 1 .. MaxIds, response \in {"accepted", "declined", "blocked"} :
       /\ i \in DOMAIN store[u].requests
       /\ InOnePiece(RespondToRequest(u, store[u].requests[i].id, response))
  \/ \E d \in net : ~Suspends(d) /\ InOnePiece(Deliver(d))
  \/ \E u \in Users, i \in 1 .. MaxIds, body \in Bodies :
       i \in DOMAIN store[u].chats /\ SendMessageBegin(u, store[u].chats[i].id, body)
  \/ \E u \in Users, i \in 1 .. MaxIds :
       i \in DOMAIN store[u].chats /\ SendTypingBegin(u, store[u].chats[i].id)
  \/ \E u \in Users : \E i \in DOMAIN tasks[u] : SendPublish(u, i)
  \/ \E u \in Users : \E i \in DOMAIN tasks[u] : SendSetSession(u, i)
  \/ \E u \in Users : \E i \in DOMAIN tasks[u] : SendSetMessage(u, i)
  \/ \E u \in Users : \E i \in DOMAIN tasks[u] : SendRecord(u, i)
  \/ \E d \in net : DmAckBegin(d)
  \/ \E u \in Users : \E i \in DOMAIN tasks[u] : DmAckSetMessage(u, i)
  \/ \E u \in Users : \E i \in DOMAIN tasks[u] : DmAckMerge(u, i)
  \/ \E d \in net, again \in BOOLEAN : ChatAcceptBegin(d, again)
  \/ \E u \in Users : \E i \in DOMAIN tasks[u] : ChatAcceptResume(u, i)

\* backups: per user, the backup file the user keeps (at most one), with the
\* database it was taken from
VARIABLE backups

NoBackups == backups = [u \in Users |-> <<>>]

\* idArgs: a group id and two keys; idResults: the identifiers computed from
\* them so far, each for the keys in both orders
VARIABLES idArgs, idResults

idVars == <<idArgs, idResults>>

NoIds == [conversation |-> <<>>, session |-> <<>>]

IdsIdle == idArgs = <<>> /\ idResults = NoIds

\* history: what has happened on the wire so far.
\*   sealed   the boxes sealed with a message key of a ratchet and published:
\*            the key, the inner payload and the messageId of the envelope
\*   opened   the dm_message and group_message envelopes a user's process
\*            has decrypted, with the outcome of handleInnerPayload
VARIABLE history

NoHistory == history = [sealed |-> {}, opened |-> {}]

\* The boxes of an envelope that were sealed with a message key.
SealedBoxes(env) ==
  IF env.type = "dm_message"
    THEN {[key |-> env.ciphertext.key, plain |-> env.ciphertext.plain,
           messageId |-> env.messageId]}
  ELSE IF env.type = "group_message"
    THEN {[key |-> env.sealed[i].ciphertext.key, plain |-> env.sealed[i].ciphertext.plain,
           messageId |-> env.messageId] : i \in DOMAIN env.sealed}
  ELSE {}

\* The outcomes of a handler that reached handleInnerPayload.
DecryptedOutcomes == {"applied", "ignored", "rekeyed", "return"}

\* The history after a step whose record is step.
Recorded(h, step) ==
  [sealed |-> h.sealed \cup UNION {SealedBoxes(step.pub[i].env) : i \in DOMAIN step.pub},
   opened |-> h.opened \cup
                IF /\ step.op = "deliver"
                   /\ step.env.type \in {"dm_message", "group_message"}
                   /\ step.out \in DecryptedOutcomes
                  THEN {[to |-> step.user, env |-> step.env, out |-> step.out]}
                ELSE {}]

vars == <<storeVars, ratchetVars, asyncVars, backups, idVars, history>>

Init == StoreInit /\ RatchetIdle /\ AsyncIdle /\ NoBackups /\ IdsIdle /\ NoHistory

Next == StoreNext /\ UNCHANGED <<ratchetVars, asyncVars, backups, idVars, history>>

NextAsync == AsyncNext /\ UNCHANGED <<ratchetVars, backups, idVars, history>>

SpecAsync == Init /\ [][NextAsync]_vars

Spec == Init /\ [][Next]_vars

\* The store with the history of the wire kept.
NextHistory ==
  /\ StoreNext
  /\ history' = Recorded(history, last')
  /\ UNCHANGED <<ratchetVars, asyncVars, backups, idVars>>

SpecHistory == Init /\ [][NextHistory]_vars

(***************************************************************************)
(* Backup and restore: restoreData replaces the database with the content  *)
(* of a backup and reloads the state from it with init. The keys held in   *)
(* memory and the subscriptions of the process stay as they are.           *)
(***************************************************************************)
\* db.getAll(store): the records of an object store, one after the other (the
\* order of the keys is not modelled: some fixed order).
getAll(records) ==
  LET keys == DOMAIN records
      n == Cardinality(keys)
      order == CHOOSE f \in [1 .. n -> keys] : \A i, j \in 1 .. n : f[i] = f[j] => i = j
  IN [i \in 1 .. n |-> records[order[i]]]

\* The records of the store requestStates: the model keeps the status of each
\* id, the store a record {id, status}.
getAllRequestStates(states) ==
  LET ids == getAll([id \in DOMAIN states |-> id])
  IN [i \in DOMAIN ids |-> [id |-> ids[i], status |-> states[ids[i]]]]

\* getAllData: the records of every store, as arrays
getAllData(c) ==
  [identity |-> c.db.identity, requests |-> getAll(c.db.requests),
   requestStates |-> getAllRequestStates(c.db.requestStates),
   chats |-> getAll(c.db.chats), sessions |-> getAll(c.db.sessions),
   messages |-> getAll(c.db.messages), reactions |-> getAll(c.db.reactions),
   attachments |-> getAll(c.db.attachments)]

\* items.map((item) => store.put(item)) on a cleared store with keyPath id
putAll(items) ==
  IF items = <<>> THEN EmptyMap
  ELSE [id \in {items[i].id : i \in DOMAIN items} |->
          items[Max({i \in DOMAIN items : items[i].id = id})]]

\* the same for the store sessions_dm, whose keyPath is conversationId
putAllSessions(items) ==
  IF items = <<>> THEN EmptyMap
  ELSE [id \in {items[i].conversationId : i \in DOMAIN items} |->
          items[Max({i \in DOMAIN items : items[i].conversationId = id})]]

\* Variant: the stores are not cleared, the records of the payload are put on
\* top of what the stores hold.
restoreAllData_NoClear(c, payload) ==
  [c EXCEPT !.db =
     [identity |-> payload.identity,
      requests |-> putAll(payload.requests) @@ @.requests,
      requestStates |-> @.requestStates,
      chats |-> putAll(payload.chats) @@ @.chats,
      sessions |-> putAllSessions(payload.sessions) @@ @.sessions,
      messages |-> putAll(payload.messages) @@ @.messages,
      reactions |-> putAll(payload.reactions) @@ @.reactions,
      attachments |-> putAll(payload.attachments) @@ @.attachments]]

\* restoreAllData: every store is cleared and filled with the records of the
\* payload.
restoreAllData(c, payload) ==
  [c EXCEPT !.db =
     [identity |-> payload.identity,
      requests |-> putAll(payload.requests),
      requestStates |->
        IF payload.requestStates = <<>> THEN EmptyMap
        ELSE [id \in DOMAIN putAll(payload.requestStates) |->
                putAll(payload.requestStates)[id].status],
      chats |-> putAll(payload.chats),
      sessions |-> putAllSessions(payload.sessions),
      messages |-> putAll(payload.messages),
      reactions |-> putAll(payload.reactions),
      attachments |-> putAll(payload.attachments)]]

\* init: the state is loaded from the database.
init(c) ==
  LET data == c.db
      messages == getAll(data.messages)
      chatIds == {messages[i].chatId : i \in DOMAIN messages}
      messagesByChat == [id \in chatIds |-> SelectSeq(messages, LAMBDA m : m.chatId = id)]
      reactions == getAll(data.reactions)
      messageIds == {reactions[i].messageId : i \in DOMAIN reactions}
      reactionsByMessage ==
        [id \in messageIds |-> SelectSeq(reactions, LAMBDA r : r.messageId = id)]
  IN [c EXCEPT !.st.identity = data.identity,
               !.st.requests = getAll(data.requests),
               !.st.chats = getAll(data.chats),
               !.st.messages = messagesByChat,
               !.st.reactions = reactionsByMessage,
               !.st.attachments = data.attachments,
               !.st.sessions = data.sessions]

\* backupData: the JSON text of the records of every store, encrypted
backupData(c, passphrase) == encryptWithPassphrase(encodePayload(getAllData(c)), passphrase)

\* restoreData: decryptWithPassphrase throws on a wrong passphrase, before
\* anything is written.
restoreData(c, payload, passphrase) ==
  LET plaintext == decryptWithPassphrase(payload, passphrase)
      data == decodePayload(plaintext[1])
  IN IF plaintext = <<>> THEN Outcome(c, "throw")
     ELSE IF data = <<>> THEN Outcome(c, "throw")
     ELSE Outcome(init(restoreAllData(c, data[1])), "restored")

\* The backups a user may restore: one taken before the identity was created.
Backups == {backupData([db |-> InitDb], "pass")}

\* A user who holds an identity restores a backup.
RestoreData(u, payload, passphrase) ==
  /\ store[u].identity # <<>>
  /\ Commit(restoreData(Ctx(u), payload, passphrase), "restoreData",
            [type |-> "none", payload |-> payload, passphrase |-> passphrase], net)
  /\ UNCHANGED <<forged, requested, created, rekeyed, duplicated>>

\* The handshake and the texts of two users, and restores.
NextRestore ==
  /\ \/ \E u \in Users : CreateIdentity(u)
     \/ \E u \in Users, to \in Users, intro \in Intros : SendChatRequest(u, to, intro)
     \/ \E u \in Users, i \in 1 .. MaxIds, response \in {"accepted", "declined", "blocked"} :
          i \in DOMAIN store[u].requests
            /\ RespondToRequest(u, store[u].requests[i].id, response)
     \/ \E u \in Users, i \in 1 .. MaxIds, body \in Bodies :
          i \in DOMAIN store[u].chats /\ SendMessage(u, store[u].chats[i].id, body)
     \/ \E d \in net : Deliver(d)
     \/ \E u \in Users, payload \in Backups : RestoreData(u, payload, "pass")
  /\ UNCHANGED <<ratchetVars, asyncVars, backups, idVars, history>>

SpecRestore == Init /\ [][NextRestore]_vars

(***************************************************************************)
(* A process that starts again on its database (the page is loaded again): *)
(* the state is the initial state filled by init, no key is held in        *)
(* memory until unlockIdentity, and the new process has no subscription.   *)
(* The commands of the store can be called in that state.                  *)
(***************************************************************************)
unlockIdentity(c, passphrase) ==
  LET identity == IF c.st.identity # <<>> THEN c.st.identity ELSE c.db.identity
      record == identity[1]
      secretKey == decryptWithPassphrase(record.encryptedSecretKey, passphrase)
      inbox == inboxTopic(record.publicKey)
      c1 == [c EXCEPT !.st.identity = identity,
                      !.st.unlockedSecretKey = secretKey[1],
                      !.st.chatKey = record.publicKey,
                      !.st.inboxTopic = <<inbox>>]
      c2 == ensureSubscription(c1, inbox)
      acceptedChats == {chat \in Range(c2.st.chats) : chat.accepted}
      c3 == [c2 EXCEPT !.subs = @ \cup {ChatTopic(chat) : chat \in acceptedChats}]
  IN IF identity = <<>> THEN Outcome(c, "false")
     ELSE IF secretKey = <<>>
       THEN Outcome(addError(c, "Failed to unlock identity. Check passphrase."), "false")
     ELSE Outcome([c3 EXCEPT !.st.wakuReady = TRUE], "true")

\* The process of a user who holds an identity starts again: what the old
\* process was about to be handed is gone with its subscriptions. (The
\* restarts of one user, Sender, are explored.)
Reload(u) ==
  /\ u = Sender
  /\ db[u].identity # <<>>
  /\ Unlocked(store[u])
  /\ LET c == init([Ctx(u) EXCEPT !.st = InitChatState, !.subs = {}])
     IN Commit(Outcome(c, "loaded"), "reload", NoEnvelope, {d \in net : d.to # u})
  /\ UNCHANGED <<forged, requested, created, rekeyed, duplicated>>

Passphrases == {"pass", "wrong"}

UnlockIdentity(u, passphrase) ==
  /\ u = Sender
  /\ Locked(store[u])
  /\ store[u].identity # <<>>
  /\ Len(store[u].errors) < MaxErrors
  /\ Commit(unlockIdentity(Ctx(u), passphrase), "unlockIdentity", NoEnvelope, net)
  /\ UNCHANGED <<forged, requested, created, rekeyed, duplicated>>

Emojis == {"+1"}

Files == {[name |-> "a.txt", blocks |-> <<"b0">>]}

OutboundCommands ==
  {"sendChatRequest", "sendMessage", "sendReaction", "sendEdit", "sendDelete", "sendTyping",
   "sendAttachment", "createGroup", "rekeySession"}

\* The chats and the messages a command can be given: those of the state, and
\* one the state does not hold.
ChatIdsOf(u) == {chat.id : chat \in Range(store[u].chats)} \cup {<<"nochat">>}

MessageIdsOf(u, chatId) ==
  {m.id : m \in Range(messageListForChat(store[u].messages, chatId))} \cup {<<"nomessage">>}

\* The context after the command, called with the chat and the message given.
Outbound(u, command, chatId, messageId) ==
  CASE command = "sendChatRequest" ->
         sendChatRequest(Ctx(u), CHOOSE v \in Users : v # u, "hi")
    [] command = "sendMessage" -> sendMessage(Ctx(u), chatId, "hello")
    [] command = "sendReaction" ->
         sendReaction(Ctx(u), chatId, messageId, CHOOSE e \in Emojis : TRUE)
    [] command = "sendEdit" -> sendEdit(Ctx(u), chatId, messageId, "edited")
    [] command = "sendDelete" -> sendDelete(Ctx(u), chatId, messageId)
    [] command = "sendTyping" -> sendTyping(Ctx(u), chatId, TRUE)
    [] command = "sendAttachment" ->
         sendAttachment(Ctx(u), chatId, CHOOSE f \in Files : TRUE)
    [] command = "createGroup" ->
         createGroup(Ctx(u), "team", <<CHOOSE v \in Users : v # u>>)
    [] OTHER -> rekeySession(Ctx(u), chatId)

\* A command of the store is called while the identity is not unlocked.
LockedOutbound(u, command, chatId, messageId) ==
  /\ u = Sender
  /\ Locked(store[u])
  /\ chatId \in ChatIdsOf(u)
  /\ messageId \in MessageIdsOf(u, chatId)
  /\ Len(store[u].errors) < MaxErrors
  /\ \A id \in DOMAIN store[u].sessions : store[u].sessions[id].sendN < MaxSends
  /\ Commit(Outbound(u, command, chatId, messageId), command, NoEnvelope, net)
  /\ UNCHANGED <<forged, requested, created, rekeyed, duplicated>>

\* One handshake of two users (Sender asks, the other user accepts) and one
\* text of Sender, restarts of Sender's process, and the commands of the store
\* called before the identity is unlocked again.
NextLocked ==
  /\ \/ \E u \in Users : CreateIdentity(u)
     \/ \E to \in Users, intro \in Intros :
          requested = 0 /\ SendChatRequest(Sender, to, intro)
     \/ \E u \in Users, i \in 1 .. MaxIds :
          i \in DOMAIN store[u].requests
            /\ RespondToRequest(u, store[u].requests[i].id, "accepted")
     \/ \E i \in 1 .. MaxIds, body \in Bodies :
          /\ i \in DOMAIN store[Sender].chats
          /\ SentTexts = {}
          /\ SendMessage(Sender, store[Sender].chats[i].id, body)
     \/ \E d \in net : Deliver(d)
     \/ \E u \in Users : Reload(u)
     \/ \E u \in Users : UnlockIdentity(u, "pass")
     \/ \E u \in Users, command \in OutboundCommands :
          \E chatId \in ChatIdsOf(u) :
            \E messageId \in MessageIdsOf(u, chatId) :
              LockedOutbound(u, command, chatId, messageId)
  /\ UNCHANGED <<ratchetVars, asyncVars, backups, idVars, history>>

SpecLocked == Init /\ [][NextLocked]_vars

(***************************************************************************)
(* Payloads of a stranger. Content topics are public: anybody can publish  *)
(* any bytes on a user's inbox topic, and the subscriber's handleIncoming  *)
(* is called with them.                                                    *)
(***************************************************************************)
\* A sealed box nobody can open.
JunkBox == [key |-> {"X"}, plain |-> "junk"]

\* A ciphertext field that is no base64 text.
MalformedBase64 == [malformed |-> TRUE]

StrangerRequestId == <<"id", "X", "h1">>

StrangerEnvelope(type, from, to) ==
  [v |-> 1, type |-> type, requestId |-> StrangerRequestId, fromPubKey |-> from,
   toPubKey |-> to, conversationId |-> conversationIdFromPubKeys(to, from)]

SealedStrangerEnvelope(type, from, to, ciphertext) ==
  [v |-> 1, type |-> type, requestId |-> StrangerRequestId, fromPubKey |-> from,
   toPubKey |-> to, ciphertext |-> ciphertext]

\* The keys a stranger names as the sender: a key of its own, a string that
\* is no base58, the key of the receiver.
StrangerKeys(to) == {Outsider, BadKey, to}

StrangerPayloads(to) ==
  {[json |-> FALSE], encodePayload([v |-> 1, fromPubKey |-> Outsider]),
   encodePayload(ForgedEnvelope(to, BadKey, 0))}
    \cup {encodePayload(StrangerEnvelope("chat_accept", from, to)) : from \in StrangerKeys(to)}
    \cup {encodePayload(SealedStrangerEnvelope(type, from, to, ciphertext)) :
            type \in {"chat_request", "group_invite"}, from \in StrangerKeys(to),
            ciphertext \in {JunkBox, MalformedBase64}}

\* The envelope of a payload, for the record of the step.
LoggedEnvelope(payloadBytes) ==
  IF decodePayload(payloadBytes) = <<>> THEN [type |-> "undecodable", json |-> FALSE]
  ELSE IF "type" \notin DOMAIN decodePayload(payloadBytes)[1]
    THEN [type |-> "undecodable", json |-> TRUE]
  ELSE decodePayload(payloadBytes)[1]

\* The process of a user is handed a payload of a stranger.
DeliverPayload(to, payloadBytes) ==
  /\ forged < MaxHostile
  /\ inboxTopic(to) \in subscribedTopics[to]
  /\ Commit(handleIncomingPayload(Ctx(to), payloadBytes), "deliverPayload",
            LoggedEnvelope(payloadBytes), net)
  /\ forged' = forged + 1
  /\ UNCHANGED <<requested, created, rekeyed, duplicated>>

\* A user enters their own chat key in the request form.
SendChatRequestToSelf(u, intro) ==
  /\ Unlocked(store[u])
  /\ store[u].inboxTopic # <<>>
  /\ requested < MaxRequests
  /\ Commit(sendChatRequest(Ctx(u), store[u].chatKey, intro), "sendChatRequest", NoEnvelope, net)
  /\ requested' = requested + 1
  /\ UNCHANGED <<forged, created, rekeyed, duplicated>>

\* The handshake of two users, with a stranger publishing on their inbox topics.
NextStranger ==
  /\ \/ \E u \in Users : CreateIdentity(u)
     \/ \E u \in Users, to \in Users, intro \in Intros : SendChatRequest(u, to, intro)
     \/ \E u \in Users, intro \in Intros : SendChatRequestToSelf(u, intro)
     \/ \E u \in Users, i \in 1 .. MaxIds, response \in {"accepted", "declined", "blocked"} :
          i \in DOMAIN store[u].requests
            /\ RespondToRequest(u, store[u].requests[i].id, response)
     \/ \E d \in net : Deliver(d)
     \/ \E to \in Users : \E payloadBytes \in StrangerPayloads(to) :
          DeliverPayload(to, payloadBytes)
  /\ UNCHANGED <<ratchetVars, asyncVars, backups, idVars, history>>

SpecStranger == Init /\ [][NextStranger]_vars

(***************************************************************************)
(* Backups: a user writes a backup file and restores it later.             *)
(***************************************************************************)
\* The user writes a backup file (one file per run, kept with the database
\* it was taken from).
BackupData(u, passphrase) ==
  /\ NoBackups
  /\ backups' = [backups EXCEPT ![u] = <<[file |-> backupData(Ctx(u), passphrase),
                                          taken |-> db[u]]>>]
  /\ last' = [op |-> "backupData", user |-> u, env |-> NoEnvelope, out |-> "none",
              pub |-> <<>>]
  /\ UNCHANGED <<store, db, subscribedTopics, net, nextId, ghost, Counters>>

\* The user restores the file they keep.
RestoreBackup(u, passphrase) ==
  /\ backups[u] # <<>>
  /\ RestoreData(u, backups[u][1].file, passphrase)
  /\ UNCHANGED backups

\* A command of the store is called by an unlocked user: one reaction and one
\* attachment per user.
UnlockedOutbound(u, command, chatId, messageId) ==
  /\ Unlocked(store[u])
  /\ command \in {"sendReaction", "sendAttachment"}
  /\ command = "sendReaction" => db[u].reactions = EmptyMap
  /\ command = "sendAttachment" => db[u].attachments = EmptyMap
  /\ \E chat \in Range(store[u].chats) : chat.id = chatId /\ chat.accepted
  /\ messageId \in MessageIdsOf(u, chatId) \ {<<"nomessage">>}
  /\ Commit(Outbound(u, command, chatId, messageId), command, NoEnvelope, net)
  /\ UNCHANGED <<forged, requested, created, rekeyed, duplicated>>

\* One handshake (Sender asks), one text, one reaction and one attachment of
\* Sender, with a backup written at some moment and restored later.
NextBackup ==
  \/ /\ \/ \E u \in Users : CreateIdentity(u)
        \/ \E to \in Users, intro \in Intros :
             requested = 0 /\ SendChatRequest(Sender, to, intro)
        \/ \E u \in Users, i \in 1 .. MaxIds :
             i \in DOMAIN store[u].requests
               /\ RespondToRequest(u, store[u].requests[i].id, "accepted")
        \/ \E i \in 1 .. MaxIds, body \in Bodies :
             /\ i \in DOMAIN store[Sender].chats
             /\ SentTexts = {}
             /\ SendMessage(Sender, store[Sender].chats[i].id, body)
        \/ \E command \in OutboundCommands :
             \E chatId \in ChatIdsOf(Sender) :
               \E messageId \in MessageIdsOf(Sender, chatId) :
                 UnlockedOutbound(Sender, command, chatId, messageId)
        \/ \E d \in net : Deliver(d)
     /\ UNCHANGED <<ratchetVars, asyncVars, backups, idVars, history>>
  \/ /\ \/ \E passphrase \in Passphrases : BackupData(Sender, passphrase)
        \/ \E passphrase \in Passphrases : RestoreBackup(Sender, passphrase)
     /\ UNCHANGED <<ratchetVars, asyncVars, idVars, history>>

SpecBackup == Init /\ [][NextBackup]_vars

(***************************************************************************)
(* Attachments: after a handshake one user sends one file, and the         *)
(* transport hands the envelopes over in any order, some of them twice.    *)
(***************************************************************************)
\* The files sent: an empty file, a file of one block, a file of two blocks.
AttachmentFiles ==
  {[name |-> "a.bin", blocks |-> blocks] : blocks \in {<<>>, <<"b0">>, <<"b0", "b1">>}}

\* A user sends a file to one of their accepted chats (one file per run).
SendAttachment(u, chatId, file) ==
  /\ Unlocked(store[u])
  /\ \E chat \in Range(store[u].chats) : chat.id = chatId /\ chat.accepted
  /\ \A v \in Users : store[v].attachments = EmptyMap
  /\ Commit(sendAttachment(Ctx(u), chatId, file), "sendAttachment",
            [type |-> "none", file |-> file], net)
  /\ UNCHANGED <<forged, requested, created, rekeyed, duplicated>>

NextAttachment ==
  /\ \/ \E u \in Users : CreateIdentity(u)
     \/ \E to \in Users, intro \in Intros :
          requested = 0 /\ SendChatRequest(Sender, to, intro)
     \/ \E u \in Users, i \in 1 .. MaxIds :
          i \in DOMAIN store[u].requests
            /\ RespondToRequest(u, store[u].requests[i].id, "accepted")
     \/ \E u \in Users, i \in 1 .. MaxIds, file \in AttachmentFiles :
          i \in DOMAIN store[u].chats /\ SendAttachment(u, store[u].chats[i].id, file)
     \/ \E d \in net : Deliver(d)
     \/ \E d \in net : DeliverTwice(d)
  /\ history' = Recorded(history, last')
  /\ UNCHANGED <<ratchetVars, asyncVars, backups, idVars>>

SpecAttachment == Init /\ [][NextAttachment]_vars

(***************************************************************************)
(* Edits and deletes: after a handshake one user sends a text, and both    *)
(* users edit and delete texts of the chat. The commands of the store take *)
(* the id of any message (the page shows its buttons on the user's own     *)
(* messages only).                                                         *)
(***************************************************************************)
EditBodies == {"edited"}

\* The texts of a chat, of whatever author, that a user holds.
TextIdsOf(u, chatId) ==
  {m.id : m \in {x \in Range(messageListForChat(store[u].messages, chatId)) : x.type = "text"}}

\* The edits and deletes sent so far.
EditsSent == Cardinality({x \in history.sealed : x.plain.kind \in {"edit", "delete"}})

SendEdit(u, chatId, messageId, body) ==
  /\ Unlocked(store[u])
  /\ \E chat \in Range(store[u].chats) : chat.id = chatId /\ chat.accepted
  /\ messageId \in TextIdsOf(u, chatId)
  /\ EditsSent < MaxEdits
  /\ Commit(sendEdit(Ctx(u), chatId, messageId, body), "sendEdit",
            [type |-> "none", chatId |-> chatId, messageId |-> messageId], net)
  /\ UNCHANGED <<forged, requested, created, rekeyed, duplicated>>

SendDelete(u, chatId, messageId) ==
  /\ Unlocked(store[u])
  /\ \E chat \in Range(store[u].chats) : chat.id = chatId /\ chat.accepted
  /\ messageId \in TextIdsOf(u, chatId)
  /\ EditsSent < MaxEdits
  /\ Commit(sendDelete(Ctx(u), chatId, messageId), "sendDelete",
            [type |-> "none", chatId |-> chatId, messageId |-> messageId], net)
  /\ UNCHANGED <<forged, requested, created, rekeyed, duplicated>>

NextEdits ==
  /\ \/ \E u \in Users : CreateIdentity(u)
     \/ \E to \in Users, intro \in Intros :
          requested = 0 /\ SendChatRequest(Sender, to, intro)
     \/ \E u \in Users, i \in 1 .. MaxIds :
          i \in DOMAIN store[u].requests
            /\ RespondToRequest(u, store[u].requests[i].id, "accepted")
     \/ \E i \in 1 .. MaxIds, body \in Bodies :
          /\ i \in DOMAIN store[Sender].chats
          /\ SentTexts = {}
          /\ SendMessage(Sender, store[Sender].chats[i].id, body)
     \/ \E u \in Users, i \in 1 .. MaxIds, body \in EditBodies :
          i \in DOMAIN store[u].chats
            /\ \E messageId \in TextIdsOf(u, store[u].chats[i].id) :
                 SendEdit(u, store[u].chats[i].id, messageId, body)
     \/ \E u \in Users, i \in 1 .. MaxIds :
          i \in DOMAIN store[u].chats
            /\ \E messageId \in TextIdsOf(u, store[u].chats[i].id) :
                 SendDelete(u, store[u].chats[i].id, messageId)
     \/ \E d \in net : Deliver(d)
  /\ history' = Recorded(history, last')
  /\ UNCHANGED <<ratchetVars, asyncVars, backups, idVars>>

SpecEdits == Init /\ [][NextEdits]_vars

(***************************************************************************)
(* The identifiers of src/src/lib/topics.ts on their own: a group id and   *)
(* two keys are drawn, and each function is applied to the keys in both    *)
(* orders.                                                                 *)
(***************************************************************************)
\* The keys drawn: keys of users and of an outsider, and a string that is no
\* key (sort() orders any two strings).
IdKeys == Users \cup {Outsider, BadKey}

IdGroups == {conversationIdFromPubKeys(GroupPool[u][i], "now") : u \in Users, i \in 1 .. 2}

IdsInit ==
  /\ idArgs \in {<<g, a, b>> : g \in IdGroups, a \in IdKeys, b \in IdKeys}
  /\ idResults = NoIds

ApplyConversationId ==
  /\ idResults.conversation = <<>>
  /\ idResults' = [idResults EXCEPT !.conversation =
                      <<conversationIdFromPubKeys(idArgs[2], idArgs[3]),
                        conversationIdFromPubKeys(idArgs[3], idArgs[2])>>]
  /\ UNCHANGED idArgs

ApplyGroupSessionId ==
  /\ idResults.session = <<>>
  /\ idResults' = [idResults EXCEPT !.session =
                      <<groupSessionId(idArgs[1], idArgs[2], idArgs[3]),
                        groupSessionId(idArgs[1], idArgs[3], idArgs[2])>>]
  /\ UNCHANGED idArgs

InitIds == StoreInit /\ RatchetIdle /\ AsyncIdle /\ NoBackups /\ IdsInit /\ NoHistory

NextIds ==
  /\ ApplyConversationId \/ ApplyGroupSessionId
  /\ UNCHANGED <<storeVars, ratchetVars, asyncVars, backups, history>>

SpecIds == InitIds /\ [][NextIds]_vars

InitRatchet == StoreInit /\ RatchetInit /\ AsyncIdle /\ NoBackups /\ IdsIdle /\ NoHistory

NextRatchet == RatchetNext /\ UNCHANGED <<storeVars, asyncVars, backups, idVars, history>>

SpecRatchet == InitRatchet /\ [][NextRatchet]_vars

(***************************************************************************)
(* Properties of the store, under Spec.                                    *)
(***************************************************************************)
\* The request a sent to b is marked accepted on both sides: b answered it with
\* accepted, and a processed the chat_accept.
HandshakeDone(a, b) ==
  /\ \E r \in Range(store[b].requests) :
       r.kind = "dm" /\ r.fromPubKey = a /\ r.toPubKey = b /\ r.status = "accepted"
  /\ \E r \in Range(store[a].requests) :
       r.kind = "dm" /\ r.fromPubKey = a /\ r.toPubKey = b /\ r.status = "accepted"

HoldsAccepted(u, chatId) ==
  \E chat \in Range(store[u].chats) : chat.id = chatId /\ chat.accepted

\* C1: once B has answered A's chat request with accepted and A has processed the
\* chat_accept, A and B both hold a chat whose id is
\* conversationIdFromPubKeys(A.chatKey, B.chatKey), with accepted = true.
C1_Handshake ==
  \A a \in Users, b \in Users :
    (a # b /\ HandshakeDone(a, b)) =>
      /\ HoldsAccepted(a, conversationIdFromPubKeys(store[a].chatKey, store[b].chatKey))
      /\ HoldsAccepted(b, conversationIdFromPubKeys(store[a].chatKey, store[b].chatKey))

C1_Witness == \E a \in Users, b \in Users : a # b /\ HandshakeDone(a, b)

\* The last step handed a dm_message to a user.
DeliveredDm(outcomes) ==
  /\ last.op = "deliver"
  /\ last.env.type = "dm_message"
  /\ last.out \in outcomes

C5_ChainMirroring ==
  /\ \A a \in Users, b \in Users :
       \A conv \in DOMAIN ghost[a] \cap DOMAIN ghost[b] :
         (a # b /\ ghost[a][conv].seed.peerPubKey = store[b].chatKey
                /\ ghost[b][conv].seed.peerPubKey = store[a].chatKey) =>
           /\ ghost[a][conv].seed.sendCK = ghost[b][conv].seed.recvCK
           /\ ghost[a][conv].seed.recvCK = ghost[b][conv].seed.sendCK
  /\ \A u \in Users :
       \A conv \in DOMAIN ghost[u] :
         /\ ghost[u][conv].seed.sendN = 0
         /\ ghost[u][conv].seed.recvN = 0
         /\ DOMAIN ghost[u][conv].seed.skippedKeys = {}

\* Both users have seeded their session of one conversation.
C5_Witness ==
  \E a \in Users, b \in Users :
    a # b /\ \E conv \in DOMAIN ghost[a] \cap DOMAIN ghost[b] :
               ghost[a][conv].seed.peerPubKey = b /\ ghost[b][conv].seed.peerPubKey = a

\* The chain key ck advanced k times.
RECURSIVE AdvancedCK(_, _)
AdvancedCK(ck, k) == IF k = 0 THEN ck ELSE AdvancedCK(hmacSha256(ck, CK_LABEL), k - 1)

\* C6: after k send operations since a session was seeded, its sendN is k and its
\* sendCK is the seed's send chain key advanced exactly k times, in memory and in
\* the database.
C6_SendChain ==
  \A u \in Users :
    \A conv \in DOMAIN ghost[u] :
      /\ conv \in DOMAIN store[u].sessions
      /\ store[u].sessions[conv].sendN = ghost[u][conv].sends
      /\ store[u].sessions[conv].sendCK =
           AdvancedCK(ghost[u][conv].seed.sendCK, ghost[u][conv].sends)
      /\ db[u].sessions[conv].sendN = ghost[u][conv].sends
      /\ db[u].sessions[conv].sendCK = store[u].sessions[conv].sendCK

C6_Witness == \E u \in Users : \E conv \in DOMAIN ghost[u] : ghost[u][conv].sends = MaxSends

\* The counter n on the wire next to a ciphertext of user u's session conv is the
\* chain index of the key that sealed it.
WireCounterOk(u, conv, n, ciphertext) ==
  /\ ciphertext.key =
       hmacSha256(AdvancedCK(ghost[u][conv].seed.sendCK, n), MSG_LABEL)
  /\ n = store[u].sessions[conv].sendN - 1
  /\ n = ghost[u][conv].sends - 1

\* C7: every dm_message and every sealed entry of a group_message a send publishes
\* carries the chain index of the message key that sealed it, which is the
\* session's sendN after the advance minus 1: 0 for the first send after seeding,
\* and one more for each following send.
C7_WireCounter ==
  last.op \in {"sendMessage", "rekeySession"} =>
    \A i \in DOMAIN last.pub :
      LET env == last.pub[i].env
      IN /\ env.type = "dm_message" =>
              WireCounterOk(last.user, env.conversationId, env.n, env.ciphertext)
         /\ env.type = "group_message" =>
              \A j \in DOMAIN env.sealed :
                WireCounterOk(last.user,
                              groupSessionId(env.groupId, last.user, env.sealed[j].toPubKey),
                              env.sealed[j].n, env.sealed[j].ciphertext)

\* The second message of a group, sealed for two members.
C7_Witness ==
  /\ last.op = "sendMessage"
  /\ \E i \in DOMAIN last.pub :
       /\ last.pub[i].env.type = "group_message"
       /\ Len(last.pub[i].env.sealed) = 2
       /\ last.pub[i].env.sealed[1].n = 1

Received == rLast.n # -1

\* C3: as long as never more than MAX_SKIPPED_KEYS counters that have not arrived
\* lie below the receiver's recvN, every message handed over for the first time
\* is opened with exactly the key it was sealed with, whatever the order; and once
\* the whole burst has arrived, recvN is the size of the burst and skippedKeys is empty.
C3_OutOfOrderWithinWindow ==
  rWindowOk =>
    /\ (Received /\ rLast.fresh) =>
         (rLast.out = "ok" /\ rLast.key = <<rSealed[rLast.n]>>)
    /\ DOMAIN rReceiver.skippedKeys = UnarrivedBelow(rReceiver, rArrived)
    /\ (rBurst > 0 /\ rArrived = 0 .. rBurst - 1) =>
         (rReceiver.recvN = rBurst /\ DOMAIN rReceiver.skippedKeys = {})

\* The whole small burst has arrived, its last message out of order (from the cache).
C3_Witness ==
  /\ rWindowOk
  /\ rBurst = SmallBurst
  /\ rArrived = 0 .. rBurst - 1
  /\ rRecvs = rBurst
  /\ rLast.fresh /\ rLast.fromCache /\ rLast.out = "ok"

\* C4: skippedKeys never holds more than MAX_SKIPPED_KEYS entries, and every
\* counter it holds is below recvN.
C4_SkippedKeysBounded ==
  \A session \in {rSender, rReceiver}
                   \cup UNION {Range(store[u].sessions) \cup Range(db[u].sessions) : u \in Users} :
    /\ Cardinality(DOMAIN session.skippedKeys) <= MAX_SKIPPED_KEYS
    /\ \A i \in DOMAIN session.skippedKeys : i < session.recvN

\* The receiver jumped over more than MAX_SKIPPED_KEYS counters and its cache is full.
C4_Witness ==
  /\ Received /\ rLast.out = "ok" /\ ~rLast.fromCache
  /\ rLast.n - rLast.recvNBefore > MAX_SKIPPED_KEYS
  /\ Cardinality(DOMAIN rReceiver.skippedKeys) = MAX_SKIPPED_KEYS

\* The receive that jumped over more than MAX_SKIPPED_KEYS counters from a fresh session.
JumpedBeyondCache ==
  /\ Received /\ rLast.out = "ok" /\ ~rLast.fromCache
  /\ rLast.recvNBefore = 0
  /\ rLast.n > MAX_SKIPPED_KEYS

\* C9 as the specification states it: after a jump over more than MAX_SKIPPED_KEYS
\* counters the cache holds exactly the MAX_SKIPPED_KEYS largest skipped counters,
\* and a later arrival of one of the earliest counters finds no key.
C9_EvictionKeepsLargest ==
  /\ JumpedBeyondCache =>
       DOMAIN rReceiver.skippedKeys = (rLast.n - MAX_SKIPPED_KEYS) .. (rLast.n - 1)
  /\ (Received /\ rLast.fresh /\ rLast.recvNBefore = rBurst /\ rBurst > MAX_SKIPPED_KEYS
        /\ rRecvs = 2 /\ rLast.n < rBurst - 1 - MAX_SKIPPED_KEYS) =>
       rLast.out = "nokey"

\* C10 as the specification states it: a counter more than MAX_SKIPPED_KEYS below
\* recvN never decrypts.
C10_LateNeverDecrypts ==
  (Received /\ rLast.recvNBefore - rLast.n > MAX_SKIPPED_KEYS) => rLast.out = "nokey"

\* C10, amended: a counter below recvN whose key is not in skippedKeys gets no key
\* and leaves the session as it was, however far below recvN it lies; one whose key
\* is cached is opened with it.
C10_LateWithoutCachedKey ==
  /\ (Received /\ rLast.n < rLast.recvNBefore /\ ~rLast.cachedBefore) =>
       (rLast.out = "nokey" /\ <<rReceiver>> = rLast.sessionBefore)
  /\ (Received /\ rLast.n < rLast.recvNBefore /\ rLast.cachedBefore) =>
       (rLast.out = "ok" /\ rLast.fromCache)

\* A counter more than MAX_SKIPPED_KEYS below recvN arrived and found no key.
C10_Witness ==
  /\ Received
  /\ rLast.recvNBefore - rLast.n > MAX_SKIPPED_KEYS
  /\ ~rLast.cachedBefore
  /\ rLast.out = "nokey"

(***************************************************************************)
(* Rekeying, and the handshake under re-delivered envelopes                *)
(* (specification Spec).                                                   *)
(***************************************************************************)
\* The step hands user `to` a dm_message that `from` sealed around a rekey
\* payload, for the first time, in a chat where `to` already holds a text of
\* `from`.
RekeyArrives(to, from) ==
  /\ to # from
  /\ last'.op = "deliver"
  /\ last'.user = to
  /\ last'.env.type = "dm_message"
  /\ last'.env.fromPubKey = from
  /\ last'.env.ciphertext.plain.kind = "rekey"
  /\ last'.env \in {d.env : d \in {x \in net : x.to = to /\ ~x.again}}
  /\ HasChat(store[to], last'.env.conversationId)
  /\ \E m \in Range(messageListForChat(store[to].messages, last'.env.conversationId)) :
       m.type = "text" /\ m.fromPubKey = from

\* C11: in a DM where texts have been exchanged, when the rekey envelope of the
\* side that called rekeySession is delivered to the peer, the peer runs
\* resetSession: it then holds the freshly seeded session for the chat.
C11_RekeyRecovery ==
  [][\A to \in Users, from \in Users :
       RekeyArrives(to, from) =>
         /\ last'.out = "rekeyed"
         /\ LET conv == last'.env.conversationId
            IN store'[to].sessions[conv] = SeedSession(store[to], conv, "dm", from)]_vars

\* The step hands user `to` a chat_request of the peer `from`.
ChatRequestArrives(to, from) ==
  /\ to # from
  /\ last'.op = "deliver"
  /\ last'.user = to
  /\ last'.env.type = "chat_request"
  /\ last'.env.fromPubKey = from

\* The step leaves the requests, chats and sessions of the user as they were,
\* in memory and in the database.
HandshakeRecordsKept(u) ==
  /\ store'[u].requests = store[u].requests
  /\ store'[u].chats = store[u].chats
  /\ store'[u].sessions = store[u].sessions
  /\ db'[u].requests = db[u].requests
  /\ db'[u].requestStates = db[u].requestStates
  /\ db'[u].chats = db[u].chats
  /\ db'[u].sessions = db[u].sessions

\* The step published exactly one envelope: one of the given type, from `to`
\* to the inbox of `from`.
RepliedOnce(to, from, type) ==
  /\ Len(last'.pub) = 1
  /\ last'.pub[1].topic = inboxTopic(from)
  /\ last'.pub[1].env.type = type
  /\ last'.pub[1].env.fromPubKey = to
  /\ last'.pub[1].env.toPubKey = from
  /\ last'.pub[1].env.requestId = last'.env.requestId

\* C12: when a chat_request arrives from a peer with whom an accepted chat
\* exists, the receiver publishes exactly one chat_accept to the peer's inbox
\* and adds or changes no Request record, chat or session.
C12_AcceptanceIdempotent ==
  [][\A to \in Users, from \in Users :
       (/\ ChatRequestArrives(to, from)
        /\ HoldsAccepted(to, conversationIdFromPubKeys(to, from)))
         => RepliedOnce(to, from, "chat_accept") /\ HandshakeRecordsKept(to)]_vars

C12_Witness ==
  /\ last.op = "deliver"
  /\ last.env.type = "chat_request"
  /\ last.out = "reaccept"
  /\ HoldsAccepted(last.user, conversationIdFromPubKeys(last.user, last.env.fromPubKey))

\* The user holds a blocked Request of the sender.
HoldsBlocked(u, from) ==
  \E item \in Range(store[u].requests) :
    item.fromPubKey = from /\ item.toPubKey = store[u].chatKey /\ item.status = "blocked"

\* C13: when a chat_request arrives from a sender of whom a blocked Request
\* exists and with whom no accepted chat exists, the receiver publishes
\* chat_blocked to the sender's inbox, creates no Request and changes none.
C13_BlockedSender ==
  [][\A to \in Users, from \in Users :
       (/\ ChatRequestArrives(to, from)
        /\ HoldsBlocked(to, from)
        /\ ~HoldsAccepted(to, conversationIdFromPubKeys(to, from)))
         => /\ RepliedOnce(to, from, "chat_blocked")
            /\ store'[to].requests = store[to].requests
            /\ db'[to].requests = db[to].requests
            /\ db'[to].requestStates = db[to].requestStates]_vars

C13_Witness ==
  /\ last.op = "deliver"
  /\ last.env.type = "chat_request"
  /\ last.out = "blocked"
  /\ HoldsBlocked(last.user, last.env.fromPubKey)

\* The statuses a Request may take after a given status.
StatusAfter(status) ==
  IF status = "pending" THEN {"pending", "accepted", "declined", "blocked"} ELSE {status}

\* C14: the status of a Request only moves from pending to accepted, declined
\* or blocked: a Request that has left pending keeps its status, whatever
\* respondToRequest calls and handshake envelopes (re-delivered ones included)
\* follow.
C14_StatusMonotone ==
  [][\A u \in Users :
       \A before \in Range(store[u].requests), after \in Range(store'[u].requests) :
         before.id = after.id => after.status \in StatusAfter(before.status)]_vars

\* The step hands user `to` for the second time a dm_message whose text the
\* first delivery stored.
DuplicateArrives(to) ==
  /\ last'.op = "deliver"
  /\ last'.user = to
  /\ last'.env.type = "dm_message"
  /\ \E d \in net \ net' : d.to = to /\ d.env = last'.env /\ d.again
  /\ \E m \in Range(messageListForChat(store[to].messages, last'.env.conversationId)) :
       m.id = last'.env.messageId /\ m.type = "text"

\* C16: the second delivery of a dm_message has no effect: no message of any
\* type is added, no session changes and nothing is published.
C16_DuplicateIgnored ==
  [][\A to \in Users :
       DuplicateArrives(to) =>
         /\ store'[to].messages = store[to].messages
         /\ db'[to].messages = db[to].messages
         /\ store'[to].sessions = store[to].sessions
         /\ db'[to].sessions = db[to].sessions
         /\ last'.pub = <<>>]_vars

(***************************************************************************)
(* Groups (specification Spec).                                            *)
(***************************************************************************)
\* The step is a send of user u to the group chat: sendMessage and
\* rekeySession both add a record to the chat's list of messages.
GroupSend(u, chat) ==
  /\ last'.op \in {"sendMessage", "rekeySession"}
  /\ last'.user = u
  /\ chat \in Range(store[u].chats)
  /\ chat.kind = "group"
  /\ messageListForChat(store'[u].messages, chat.id)
       # messageListForChat(store[u].messages, chat.id)

\* The pairwise session of u with a member before the step, as getSendKey
\* finds or seeds it.
PairwiseBefore(u, chat, member) ==
  LET conv == groupSessionId(chat.id, u, member)
  IN IF conv \in DOMAIN store[u].sessions THEN store[u].sessions[conv]
     ELSE IF conv \in DOMAIN db[u].sessions THEN db[u].sessions[conv]
     ELSE SeedSession(store[u], conv, "group", member)

\* C19: a group send publishes exactly one group_message on the group topic;
\* its sealed list has exactly one entry for each participant other than the
\* sender, addressed by toPubKey and sealed with the next message key of the
\* pairwise session groupSessionId(groupId, sender, member), whose sendN
\* advances by one.
C19_GroupFanout ==
  [][\A u \in Users : \A chat \in Range(store[u].chats) :
       GroupSend(u, chat) =>
         LET others == Range(chat.participants) \ {u}
             env == last'.pub[1].env
         IN /\ Len(last'.pub) = 1
            /\ last'.pub[1].topic = groupTopic(chat.id)
            /\ env.type = "group_message"
            /\ env.groupId = chat.id
            /\ env.fromPubKey = u
            /\ Len(env.sealed) = Cardinality(others)
            /\ \A member \in others :
                 LET conv == groupSessionId(chat.id, u, member)
                     before == PairwiseBefore(u, chat, member)
                 IN /\ Cardinality({j \in DOMAIN env.sealed :
                                       env.sealed[j].toPubKey = member}) = 1
                    /\ \A j \in DOMAIN env.sealed :
                         env.sealed[j].toPubKey = member =>
                           /\ env.sealed[j].ciphertext.key
                                = hmacSha256(before.sendCK, MSG_LABEL)
                           /\ env.sealed[j].n = before.sendN
                    /\ store'[u].sessions[conv].sendN = before.sendN + 1
                    /\ db'[u].sessions[conv].sendN = before.sendN + 1]_vars

\* A second send to a group of three: two entries, sealed from sessions that
\* had advanced once.
C19_Witness ==
  /\ last.op \in {"sendMessage", "rekeySession"}
  /\ Len(last.pub) = 1
  /\ last.pub[1].env.type = "group_message"
  /\ Len(last.pub[1].env.sealed) = 2
  /\ \A j \in DOMAIN last.pub[1].env.sealed : last.pub[1].env.sealed[j].n = 1

(***************************************************************************)
(* The locked store (specification SpecRestore).                           *)
(***************************************************************************)
\* C20: while the identity is absent or not unlocked, processing an inbound
\* envelope changes no record in memory or in the database and publishes
\* nothing.
C20_LockedInboundNoOp ==
  [][\A u \in Users :
       (last'.op = "deliver" /\ last'.user = u /\ Locked(store[u])) =>
         /\ store'[u] = store[u]
         /\ db'[u] = db[u]
         /\ subscribedTopics'[u] = subscribedTopics[u]
         /\ last'.pub = <<>>]_vars

\* A dm_message reaches a user whose identity is absent.
C20_Witness ==
  /\ last.op = "deliver"
  /\ last.out = "locked"
  /\ last.env.type = "dm_message"
  /\ Locked(store[last.user])

(***************************************************************************)
(* Handlers that overlap at their suspension points (specification         *)
(* SpecAsync).                                                             *)
(***************************************************************************)
\* The dm_ack for the message has been published and user a has processed it:
\* the peer decrypted the text (and acknowledged it in the same handler), and
\* the acknowledgement is neither on its way nor in a suspended handler.
AckProcessed(a, chatId, messageId) ==
  /\ \E b \in Users \ {a} :
       \E m \in Range(messageListForChat(store[b].messages, chatId)) :
         m.id = messageId /\ m.type = "text" /\ m.status = "delivered"
  /\ ~\E d \in net : d.to = a /\ d.env.type = "dm_ack" /\ d.env.messageId = messageId
  /\ ~\E i \in DOMAIN tasks[a] :
        tasks[a][i].kind = "dm_ack" /\ tasks[a][i].message.messageId = messageId

\* C15: for every DM text a user sent (sendMessage has recorded it) and the
\* peer decrypted, once the peer's dm_ack has been processed the user's record
\* of the message has status delivered, however the arrival of the ack
\* interleaves with the steps of sendMessage.
C15_AckMarksDelivered ==
  \A a \in Users : \A chatId \in DOMAIN store[a].messages :
    \A m \in Range(store[a].messages[chatId]) :
      (/\ m.type = "text"
       /\ m.fromPubKey = store[a].chatKey
       /\ \E chat \in Range(store[a].chats) : chat.id = chatId /\ chat.kind = "dm"
       /\ AckProcessed(a, chatId, m.id))
        => m.status = "delivered"

\* C17: two outbound operations on one conversation that overlap never seal
\* their envelopes with the same counter and message key, and when all
\* operations have completed the session's sendN has advanced once for each.
C17_NoSendRace ==
  /\ \A u \in Users : \A i, j \in DOMAIN tasks[u] :
       (/\ i # j
        /\ IsSend(tasks[u][i])
        /\ IsSend(tasks[u][j])
        /\ tasks[u][i].chatId = tasks[u][j].chatId)
         => \/ tasks[u][i].payload.n # tasks[u][j].payload.n
            \/ tasks[u][i].payload.ciphertext.key # tasks[u][j].payload.ciphertext.key
  /\ (\A u \in Users : tasks[u] = <<>>) =>
       \A chat \in Range(store[Sender].chats) :
         chat.id \in DOMAIN store[Sender].sessions =>
           store[Sender].sessions[chat.id].sendN = begun

\* C18: subscribeTopic is called at most once for a content topic in one
\* process, whatever ensureSubscription requests overlap.
C18_SingleSubscription ==
  \A u \in Users : \A i, j \in DOMAIN subscribeCalls[u] :
    subscribeCalls[u][i] = subscribeCalls[u][j] => i = j

(***************************************************************************)
(* Commands called while the identity is not unlocked (specification       *)
(* SpecLocked).                                                            *)
(***************************************************************************)
\* The step is an outbound command of a user whose identity is not unlocked.
LockedCommandStep ==
  /\ last'.op \in OutboundCommands
  /\ last'.user \in Users
  /\ Locked(store[last'.user])

\* The step pushed one entry to the error log of the user.
PushedError(u) ==
  /\ store'[u].errors # <<>>
  /\ store'[u].errors =
       SliceLast(Append(store[u].errors, store'[u].errors[Len(store'[u].errors)]), 5)

\* C21: an outbound command called while the identity is not unlocked
\* publishes no envelope, leaves every session as it is (in the state and in
\* the database), and pushes an entry to the error log, which holds at most
\* its 5 most recent entries.
C21_LockedOutboundRejected ==
  [][LockedCommandStep =>
       /\ last'.pub = <<>>
       /\ store'[last'.user].sessions = store[last'.user].sessions
       /\ db'[last'.user].sessions = db[last'.user].sessions
       /\ PushedError(last'.user)
       /\ Len(store'[last'.user].errors) <= 5]_vars

\* An outbound command called while the identity is not unlocked publishes no
\* envelope and leaves every session as it is.
LockedOutboundSilent ==
  [][LockedCommandStep =>
       /\ last'.pub = <<>>
       /\ store'[last'.user].sessions = store[last'.user].sessions
       /\ db'[last'.user].sessions = db[last'.user].sessions]_vars

\* sendChatRequest and sendMessage called while the identity is not unlocked
\* publish nothing, change no session and push an entry to the error log.
LockedSendsLogged ==
  [][(LockedCommandStep /\ last'.op \in {"sendChatRequest", "sendMessage"}) =>
       /\ last'.pub = <<>>
       /\ store'[last'.user].sessions = store[last'.user].sessions
       /\ db'[last'.user].sessions = db[last'.user].sessions
       /\ PushedError(last'.user)]_vars

\* The error log never holds more than 5 entries.
ErrorLogBounded == \A u \in Users : Len(store[u].errors) <= 5

\* The log has dropped an entry: six were pushed.
ErrorLogFull ==
  \E u \in Users : Len(store[u].errors) = 5 /\ last.op \in OutboundCommands /\ last.out = "error"


(***************************************************************************)
(* Payloads of a stranger (specification SpecStranger).                    *)
(***************************************************************************)
\* The step handed a user a payload that is no JSON text, has no type, or
\* carries a field that is no base58 or no base64 text.
MalformedStep ==
  /\ last'.op = "deliverPayload"
  /\ \/ last'.env.type = "undecodable"
     \/ base58Throws(last'.env.fromPubKey)
     \/ ("ciphertext" \in DOMAIN last'.env /\ base64Throws(last'.env.ciphertext))

\* The step left the chats, requests, sessions and messages of the user who
\* made it as they were, in the state and in the database.
RecordsUntouched ==
  LET u == last'.user
  IN /\ store'[u].chats = store[u].chats
     /\ store'[u].requests = store[u].requests
     /\ store'[u].sessions = store[u].sessions
     /\ store'[u].messages = store[u].messages
     /\ db'[u].chats = db[u].chats
     /\ db'[u].requests = db[u].requests
     /\ db'[u].requestStates = db[u].requestStates
     /\ db'[u].sessions = db[u].sessions
     /\ db'[u].messages = db[u].messages

\* C22: a payload that is no valid JSON, has no type, or carries a malformed
\* base58 or base64 field creates or changes no chat, request, session or
\* message, and nothing is published.
C22_MalformedDropped ==
  [][MalformedStep => (RecordsUntouched /\ last'.pub = <<>>)]_vars

\* A payload that is no JSON text or has no type changes nothing at all.
UndecodableDropped ==
  [][(last'.op = "deliverPayload" /\ last'.env.type = "undecodable") =>
       /\ store' = store
       /\ db' = db
       /\ subscribedTopics' = subscribedTopics
       /\ last'.pub = <<>>]_vars

\* A malformed payload of a type other than chat_accept creates or changes no
\* chat, request, session or message.
MalformedOthersKeepRecords ==
  [][(MalformedStep /\ last'.env.type # "chat_accept") => RecordsUntouched]_vars

\* An unlocked user who holds an accepted chat was handed a chat_request of
\* the peer whose sealed box is no base64.
MalformedRequestAnswered ==
  /\ last.op = "deliverPayload"
  /\ last.env.type = "chat_request"
  /\ base64Throws(last.env.ciphertext)
  /\ last.out = "reaccept"

\* An unlocked user was handed a chat_accept whose fromPubKey is no base58.
BadAcceptHandled ==
  /\ last.op = "deliverPayload"
  /\ last.env.type = "chat_accept"
  /\ last.env.fromPubKey = BadKey
  /\ last.out = "throw"


\* The step handed an unlocked user an envelope of the given type whose
\* fields are well formed and whose sealed box the user cannot open.
UndecryptableStep(type) ==
  LET u == last'.user
      env == last'.env
  IN /\ last'.op = "deliverPayload"
     /\ env.type = type
     /\ ~Locked(store[u])
     /\ ~base58Throws(env.fromPubKey)
     /\ ~base64Throws(env.ciphertext)
     /\ boxOpen(env.ciphertext, env.fromPubKey, store[u].unlockedSecretKey) = <<>>

\* The chat_request branch reaches the sealed box: the user holds no accepted
\* chat with the sender and no blocked request of the sender.
ReachesSealedBox ==
  LET u == last'.user
      from == last'.env.fromPubKey
  IN /\ \A chat \in Range(store[u].chats) :
          ~(chat.id = conversationIdFromPubKeys(store[u].chatKey, from) /\ chat.accepted)
     /\ \A item \in Range(store[u].requests) :
          ~(item.fromPubKey = from /\ item.toPubKey = store[u].chatKey
              /\ item.status = "blocked")

\* After the step the user holds a pending request of the sender, of the
\* given kind, with the placeholder intro, in the state and in the database.
PlaceholderStored(kind) ==
  LET u == last'.user
  IN \E r \in Range(store'[u].requests) :
       /\ r.kind = kind
       /\ r.fromPubKey = last'.env.fromPubKey
       /\ r.status = "pending"
       /\ r.intro = "Unable to decrypt intro."
       /\ r.id \in DOMAIN db'[u].requests
       /\ db'[u].requests[r.id] = r
       /\ r.id \in DOMAIN db'[u].requestStates
       /\ db'[u].requestStates[r.id] = "pending"

\* C23: when the sealed box of an inbound chat_request or of an inbound
\* group_invite cannot be opened, a pending request with a placeholder intro
\* is persisted all the same.
C23_UndecryptableStillPersisted ==
  [][/\ (UndecryptableStep("chat_request") /\ ReachesSealedBox) => PlaceholderStored("dm")
     /\ UndecryptableStep("group_invite") => PlaceholderStored("group")]_vars

\* The part about chat_request: the request is persisted with the placeholder.
UndecryptableRequestPersisted ==
  [][(UndecryptableStep("chat_request") /\ ReachesSealedBox) => PlaceholderStored("dm")]_vars

\* An invite whose sealed box cannot be opened leaves no trace.
UndecryptableInviteDropped ==
  [][UndecryptableStep("group_invite") =>
       /\ store' = store
       /\ db' = db
       /\ last'.pub = <<>>]_vars

\* A user holds a pending request with the placeholder intro.
PlaceholderHeld ==
  \E u \in Users : \E r \in Range(store[u].requests) :
    /\ r.intro = "Unable to decrypt intro."
    /\ r.status = "pending"
    /\ last.op = "deliverPayload"
    /\ last.out = "stored"

\* An unlocked user was handed a group_invite whose sealed box cannot be opened.
JunkInviteHandled ==
  /\ last.op = "deliverPayload"
  /\ last.env.type = "group_invite"
  /\ last.env.ciphertext = JunkBox
  /\ last.out = "return"


(***************************************************************************)
(* Backup and restore (specification SpecBackup).                          *)
(***************************************************************************)
\* The step is a restoreData of user u, called with the file u keeps.
RestoreStep(u) ==
  /\ last'.op = "restoreData"
  /\ last'.user = u
  /\ backups[u] # <<>>
  /\ last'.env.payload = backups[u][1].file

\* The records of a store.
RecordsOf(map) == {map[k] : k \in DOMAIN map}

\* The list holds the records, each once.
ListsExactly(list, records) ==
  Range(list) = records /\ Len(list) = Cardinality(records)

\* The in-memory collections hold what the stores of the database hold.
InMemoryMatches(st, database) ==
  /\ st.identity = database.identity
  /\ ListsExactly(st.requests, RecordsOf(database.requests))
  /\ ListsExactly(st.chats, RecordsOf(database.chats))
  /\ DOMAIN st.messages = {m.chatId : m \in RecordsOf(database.messages)}
  /\ \A chatId \in DOMAIN st.messages :
       ListsExactly(st.messages[chatId],
                    {m \in RecordsOf(database.messages) : m.chatId = chatId})
  /\ DOMAIN st.reactions = {r.messageId : r \in RecordsOf(database.reactions)}
  /\ \A messageId \in DOMAIN st.reactions :
       ListsExactly(st.reactions[messageId],
                    {r \in RecordsOf(database.reactions) : r.messageId = messageId})
  /\ st.attachments = database.attachments
  /\ st.sessions = database.sessions

\* C24: restoreData of a backup with the passphrase it was made with, in any
\* later state, makes every store of the database equal to its content when
\* the backup was taken, and the in-memory requests, chats, messages,
\* reactions, attachments and sessions equal to those stores.
C24_BackupRoundTrip ==
  [][\A u \in Users :
       (RestoreStep(u) /\ last'.env.passphrase = backups[u][1].file.passphrase) =>
         /\ db'[u] = backups[u][1].taken
         /\ InMemoryMatches(store'[u], db'[u])]_vars

\* A backup that holds a chat, its session, messages and an attachment was
\* restored after a reaction had been stored: the reaction is gone.
C24_Witness ==
  \E u \in Users :
    /\ last.op = "restoreData"
    /\ last.user = u
    /\ last.out = "restored"
    /\ backups[u] # <<>>
    /\ backups[u][1].taken.attachments # EmptyMap
    /\ backups[u][1].taken.sessions # EmptyMap
    /\ backups[u][1].taken.messages # EmptyMap
    /\ backups[u][1].taken.reactions = EmptyMap
    /\ nextId[u] = MaxIds
    /\ db[u].reactions = EmptyMap

\* C25: restoreData called with a passphrase other than the one the backup
\* was made with fails, and leaves the database and the in-memory state of
\* the user as they were.
C25_FailedRestoreUntouched ==
  [][\A u \in Users :
       (RestoreStep(u) /\ last'.env.passphrase # backups[u][1].file.passphrase) =>
         /\ last'.out = "throw"
         /\ db'[u] = db[u]
         /\ store'[u] = store[u]]_vars

\* A restore with the wrong passphrase failed in a state whose database is
\* not the one the backup was taken from.
C25_Witness ==
  \E u \in Users :
    /\ last.op = "restoreData"
    /\ last.user = u
    /\ last.out = "throw"
    /\ backups[u] # <<>>
    /\ last.env.passphrase # backups[u][1].file.passphrase
    /\ db[u] # backups[u][1].taken
    /\ backups[u][1].taken.chats # EmptyMap


(***************************************************************************)
(* The shape of a DM chat.                                                 *)
(***************************************************************************)
\* The participants are the local chat key and one other key.
TwoDistinctParticipants(u, chat) ==
  /\ Len(chat.participants) = 2
  /\ \E other \in Range(chat.participants) :
       other # PubOf(u) /\ Range(chat.participants) = {PubOf(u), other}

\* C26: in every reachable state every chat of kind dm has exactly two
\* participants: the local chat key and one other chat key distinct from it.
C26_DmParticipants ==
  \A u \in Users :
    \A chat \in Range(store[u].chats) \cup RecordsOf(db[u].chats) :
      chat.kind = "dm" => TwoDistinctParticipants(u, chat)

\* A user accepted the request they had sent to their own key: the chat is a
\* chat with themselves.
SelfChatAccepted ==
  \E u \in Users :
    /\ last.op = "respondToRequest"
    /\ last.user = u
    /\ \E chat \in Range(store[u].chats) :
         chat.kind = "dm" /\ chat.participants = <<PubOf(u), PubOf(u)>>

\* A chat_accept that names the receiver as its sender made a chat of the
\* receiver with themselves.
SelfChatByAccept ==
  \E u \in Users :
    /\ last.op = "deliverPayload"
    /\ last.user = u
    /\ last.env.type = "chat_accept"
    /\ last.env.fromPubKey = PubOf(u)
    /\ \E chat \in Range(store[u].chats) :
         chat.kind = "dm" /\ chat.participants = <<PubOf(u), PubOf(u)>>


(***************************************************************************)
(* The identifiers (specification SpecIds).                                *)
(***************************************************************************)
\* C27: conversationIdFromPubKeys and groupSessionId give the same identifier
\* for two keys in either order, so that both ends of a pair address the
\* same DM topic and the same session.
C27_OrderIndependentIds ==
  /\ idResults.conversation # <<>> =>
       /\ idResults.conversation[1] = idResults.conversation[2]
       /\ dmTopic(idResults.conversation[1]) = dmTopic(idResults.conversation[2])
  /\ idResults.session # <<>> => idResults.session[1] = idResults.session[2]

\* Both functions were applied to two different keys given in the order that
\* is not the sorted one.
C27_Witness ==
  /\ idResults.conversation # <<>>
  /\ idResults.session # <<>>
  /\ idArgs[2] # idArgs[3]
  /\ SortPair(idArgs[2], idArgs[3]) # <<idArgs[2], idArgs[3]>>


(***************************************************************************)
(* The handshake behind a DM chat.                                         *)
(***************************************************************************)
\* The user holds the record of a request of the peer that the user accepted,
\* or of a request the user sent to the peer.
HandshakeWith(u, peer) ==
  \E r \in Range(store[u].requests) \cup RecordsOf(db[u].requests) :
    \/ r.kind = "dm" /\ r.fromPubKey = peer /\ r.toPubKey = PubOf(u) /\ r.status = "accepted"
    \/ r.kind = "dm" /\ r.fromPubKey = PubOf(u) /\ r.toPubKey = peer

\* Every DM chat of a user is a chat with a peer the user shook hands with.
HandshakeBehindEveryDm ==
  \A u \in Users :
    \A chat \in Range(store[u].chats) :
      chat.kind = "dm" => HandshakeWith(u, chat.participants[2])

\* The step handed an unlocked user a chat_accept of a peer to whom the user
\* never sent a request.
UnsolicitedAcceptStep ==
  LET u == last'.user
  IN /\ last'.op \in {"deliver", "deliverPayload"}
     /\ last'.env.type = "chat_accept"
     /\ ~Locked(store[u])
     /\ ~\E r \in Range(store[u].requests) \cup RecordsOf(db[u].requests) :
           r.fromPubKey = PubOf(u) /\ r.toPubKey = last'.env.fromPubKey

\* C28: a DM chat with a peer exists at a user only if the user accepted a
\* request of the peer or had sent a chat_request to the peer; a chat_accept
\* of a peer to whom the user never sent a request creates no chat, no
\* session and no subscription.
C28_MandatoryHandshake ==
  /\ []HandshakeBehindEveryDm
  /\ [][UnsolicitedAcceptStep =>
          /\ store'[last'.user].chats = store[last'.user].chats
          /\ db'[last'.user].chats = db[last'.user].chats
          /\ store'[last'.user].sessions = store[last'.user].sessions
          /\ db'[last'.user].sessions = db[last'.user].sessions
          /\ subscribedTopics'[last'.user] = subscribedTopics[last'.user]]_vars

\* A chat_accept of the outsider, to whom the user never sent anything, made
\* an accepted chat with a session and a subscription.
UnsolicitedAcceptMadeChat ==
  \E u \in Users :
    /\ last.op = "deliverPayload"
    /\ last.user = u
    /\ last.env.type = "chat_accept"
    /\ last.env.fromPubKey = Outsider
    /\ last.out = "accepted"
    /\ store[u].requests = <<>>
    /\ \E chat \in Range(store[u].chats) :
         /\ chat.participants = <<PubOf(u), Outsider>>
         /\ chat.accepted
         /\ chat.id \in DOMAIN db[u].sessions
         /\ dmTopic(chat.id) \in subscribedTopics[u]


(***************************************************************************)
(* rekeySession.                                                           *)
(***************************************************************************)
\* The step is a rekeySession of an unlocked user on a chat of the given kind.
RekeyStep(u, chat) ==
  /\ last'.op = "rekeySession"
  /\ last'.user = u
  /\ ~Locked(store[u])
  /\ chat \in Range(store[u].chats)
  /\ chat.id = last'.env.chatId
  /\ \E key \in Range(chat.participants) : key # store[u].chatKey

\* The session resetSession seeds for the chat from the keys of the user.
FreshSession(u, chat) ==
  SeedSession(store[u], chat.id, chat.kind,
              chat.participants[Min({i \in DOMAIN chat.participants :
                                       chat.participants[i] # store[u].chatKey})])

PairwiseId(chat, u, member) == groupSessionId(chat.id, PubOf(u), member)

\* The session is freshly seeded for the pair, or freshly seeded and used for
\* the one send of the rekey notice.
ReseededPairwise(session, u, chat, member) ==
  LET fresh == SeedSession(store[u], PairwiseId(chat, u, member), "group", member)
  IN session \in {fresh, advanceSend(fresh).nextSession}

\* The step handed a group member a group_message whose entry for the member
\* holds a rekey notice, and the member applied it.
GroupRekeyApplied(to) ==
  /\ last'.op = "deliver"
  /\ last'.user = to
  /\ last'.env.type = "group_message"
  /\ ~Locked(store[to])
  /\ \E i \in DOMAIN last'.env.sealed :
       /\ last'.env.sealed[i].toPubKey = PubOf(to)
       /\ last'.env.sealed[i].ciphertext.plain.kind = "rekey"
  /\ last'.out = "rekeyed"

\* C30: rekeySession on a group chat re-seeds the pairwise sessions of the
\* caller with every other member (counters 0, no skipped keys), and a member
\* who applies the rekey notice re-seeds its pairwise session with the sender.
C30_GroupRekey ==
  [][\A u \in Users :
       /\ \A chat \in Range(store[u].chats) :
            (RekeyStep(u, chat) /\ chat.kind = "group") =>
              \A member \in Range(chat.participants) \ {PubOf(u)} :
                /\ PairwiseId(chat, u, member) \in DOMAIN store'[u].sessions
                /\ ReseededPairwise(store'[u].sessions[PairwiseId(chat, u, member)],
                                    u, chat, member)
       /\ GroupRekeyApplied(u) =>
            LET chat == FindChat(store[u], last'.env.groupId)
                id == PairwiseId(chat, u, last'.env.fromPubKey)
            IN /\ id \in DOMAIN store'[u].sessions
               /\ store'[u].sessions[id] =
                    SeedSession(store[u], id, "group", last'.env.fromPubKey)]_vars

\* What rekeySession does on a group chat: a session is seeded under the id
\* of the group itself, and each pairwise session is the one the caller had
\* (or would have seeded on first use), advanced by the send of the notice.
GroupRekeyKeepsPairwise ==
  [][\A u \in Users :
       \A chat \in Range(store[u].chats) :
         (RekeyStep(u, chat) /\ chat.kind = "group") =>
           /\ store'[u].sessions[chat.id] = FreshSession(u, chat)
           /\ \A member \in Range(chat.participants) \ {PubOf(u)} :
                store'[u].sessions[PairwiseId(chat, u, member)] =
                  advanceSend(ensuredSession(Ctx(u), PairwiseId(chat, u, member), "group",
                                             member)).nextSession]_vars

\* What a member does with a rekey notice of a group: a session is seeded
\* under the id of the group itself, and the pairwise session with the sender
\* goes on from the key the notice was opened with.
GroupRekeyAppliedKeepsPairwise ==
  [][\A u \in Users :
       GroupRekeyApplied(u) =>
         LET chat == FindChat(store[u], last'.env.groupId)
             id == PairwiseId(chat, u, last'.env.fromPubKey)
         IN /\ store'[u].sessions[chat.id] =
                 SeedSession(store[u], chat.id, "group", last'.env.fromPubKey)
            /\ store'[u].sessions[id].recvN >= 1]_vars

\* A member who had sent a text to the group has rekeyed the group: the
\* pairwise session has gone on counting.
GroupRekeyedAfterText ==
  \E u \in Users :
    /\ last.op = "rekeySession"
    /\ last.out = "rekeyed"
    /\ last.user = u
    /\ \E chat \in Range(store[u].chats) :
         /\ chat.id = last.env.chatId
         /\ chat.kind = "group"
         /\ \E id \in DOMAIN store[u].sessions : store[u].sessions[id].sendN = 2

\* A member has applied the rekey notice of a group.
GroupRekeyNoticeApplied ==
  /\ last.op = "deliver"
  /\ last.env.type = "group_message"
  /\ last.out = "rekeyed"


(***************************************************************************)
(* A group_message whose sealed entry cannot be opened.                    *)
(***************************************************************************)
\* The step handed an unlocked member of a group a group_message whose entry
\* for the member yields no receive key or fails authentication.
GroupDecryptFailed(to) ==
  /\ last'.op = "deliver"
  /\ last'.user = to
  /\ last'.env.type = "group_message"
  /\ last'.out \in {"nokey", "auth"}

\* The chat holds one more message than before, a system message marked
\* keyMismatch.
KeyMismatchAppended(to, chatId) ==
  LET before == messageListForChat(store[to].messages, chatId)
      after == messageListForChat(store'[to].messages, chatId)
  IN /\ Len(after) = Len(before) + 1
     /\ after[Len(after)].type = "system"
     /\ after[Len(after)].keyMismatch

\* C31: when the sealed entry addressed to the receiver of a group_message
\* yields no receive key or fails authentication, a keyMismatch system message
\* is appended to the group chat, the pairwise session is left unchanged, and
\* no ack is published.
C31_GroupDecryptFailure ==
  [][\A to \in Users :
       GroupDecryptFailed(to) =>
         /\ KeyMismatchAppended(to, last'.env.groupId)
         /\ store'[to].sessions = store[to].sessions
         /\ db'[to].sessions = db[to].sessions
         /\ last'.pub = <<>>]_vars

\* What handleGroupMessage does when the entry cannot be opened: it returns.
\* No message is stored, no session changes, nothing is published.
GroupDecryptFailureSilent ==
  [][\A to \in Users :
       GroupDecryptFailed(to) =>
         /\ store'[to].messages = store[to].messages
         /\ db'[to].messages = db[to].messages
         /\ store'[to].sessions = store[to].sessions
         /\ db'[to].sessions = db[to].sessions
         /\ last'.pub = <<>>]_vars

\* A dm_message that cannot be opened does leave a keyMismatch message.
DmDecryptFailureNoted ==
  [][(last'.op = "deliver" /\ last'.env.type = "dm_message"
        /\ last'.out \in {"nokey", "auth"}) =>
       KeyMismatchAppended(last'.user, last'.env.conversationId)]_vars

\* A member of a group was handed a group_message a second time: the entry
\* yields no receive key.
GroupDecryptFailureReached ==
  /\ last.op = "deliver"
  /\ last.env.type = "group_message"
  /\ last.out = "nokey"
  /\ HasChat(store[last.user], last.env.groupId)


(***************************************************************************)
(* A chat_accept for a conversation whose chat exists already.             *)
(***************************************************************************)
\* The step handed a user a chat_accept, and the user, who held the chat of
\* the conversation with the sender already, processed it.
AcceptForExistingChat(to, chatId) ==
  /\ last'.op = "deliver"
  /\ last'.user = to
  /\ last'.env.type = "chat_accept"
  /\ last'.out = "accepted"
  /\ chatId = conversationIdFromPubKeys(store[to].chatKey, last'.env.fromPubKey)
  /\ HasChat(store[to], chatId)

\* The session of the conversation and the messages of the chat are what
\* they were, in the state and in the database.
SessionAndMessagesKept(to, chatId) ==
  /\ chatId \in DOMAIN store[to].sessions
  /\ store'[to].sessions = store[to].sessions
  /\ db'[to].sessions = db[to].sessions
  /\ store'[to].messages = store[to].messages
  /\ db'[to].messages = db[to].messages

\* C32: processing a chat_accept for a conversation whose chat already exists
\* leaves that chat record and the existing session unchanged and appends no
\* further system message.
C32_AcceptKeepsExistingChat ==
  [][\A to \in Users :
       \A chatId \in {chat.id : chat \in Range(store[to].chats)} :
         AcceptForExistingChat(to, chatId) =>
           /\ HasChat(store'[to], chatId)
           /\ FindChat(store'[to], chatId) = FindChat(store[to], chatId)
           /\ db'[to].chats = db[to].chats
           /\ SessionAndMessagesKept(to, chatId)]_vars

\* What the chat_accept branch keeps when the chat exists: the session and
\* the messages.
AcceptKeepsSessionAndMessages ==
  [][\A to \in Users :
       \A chatId \in {chat.id : chat \in Range(store[to].chats)} :
         AcceptForExistingChat(to, chatId) => SessionAndMessagesKept(to, chatId)]_vars

\* What the chat_accept branch does to the chat: the record is written anew,
\* whether or not the chat exists.
AcceptRewritesChat ==
  [][\A to \in Users :
       \A chatId \in {chat.id : chat \in Range(store[to].chats)} :
         AcceptForExistingChat(to, chatId) =>
           FindChat(store'[to], chatId) =
             ChatRecord(chatId, "dm", last'.env.fromPubKey,
                        <<store[to].chatKey, last'.env.fromPubKey>>)]_vars

\* A user whose chat held a sent or received message was handed a chat_accept
\* of the peer once more.
AcceptAfterMessage ==
  /\ last.op = "deliver"
  /\ last.env.type = "chat_accept"
  /\ last.out = "accepted"
  /\ \E m \in Range(messageListForChat(
                      store[last.user].messages,
                      conversationIdFromPubKeys(store[last.user].chatKey,
                                                last.env.fromPubKey))) :
       m.type = "text"


(***************************************************************************)
(* Reassembly of an attachment (specification SpecAttachment).             *)
(***************************************************************************)
\* The inner payloads of the DM envelopes user u has decrypted so far.
OpenedInner(u) ==
  {x.env.ciphertext.plain : x \in {y \in history.opened : y.to = u /\ y.env.type = "dm_message"}}

\* The chunks of attachment a that u has decrypted.
OpenedChunks(u, a) ==
  {inner \in OpenedInner(u) : inner.kind = "attachment_chunk" /\ inner.attachmentId = a}

\* u has decrypted and handled the chunk of every index of the attachment.
EveryChunkOpened(u, a, totalChunks) ==
  \A i \in 0 .. totalChunks - 1 : \E inner \in OpenedChunks(u, a) : inner.index = i

\* The data of the chunks 0 .. n - 1 that u has decrypted, concatenated in
\* ascending order of the index.
RECURSIVE ChunksInOrder(_, _, _)
ChunksInOrder(u, a, n) ==
  IF n = 0 THEN <<>>
  ELSE ChunksInOrder(u, a, n - 1)
         \o (CHOOSE inner \in OpenedChunks(u, a) : inner.index = n - 1).data

\* The attachment records a user holds as a receiver.
ReceivedAttachments(u) ==
  {att \in Range(store[u].attachments) : "chunks" \in DOMAIN att}

\* C33: once the attachment_meta and every attachment_chunk of an attachment
\* have been decrypted and applied by the receiver, in any arrival order and
\* with any duplicates, the attachment is complete and its data is the chunks
\* concatenated in ascending index order; before every index is present it is
\* not complete.
C33_AttachmentReassembly ==
  \A u \in Users :
    /\ \A meta \in {inner \in OpenedInner(u) : inner.kind = "attachment_meta"} :
         EveryChunkOpened(u, meta.attachmentId, meta.totalChunks) =>
           /\ meta.attachmentId \in DOMAIN store[u].attachments
           /\ store[u].attachments[meta.attachmentId].complete
           /\ store[u].attachments[meta.attachmentId].data =
                <<ChunksInOrder(u, meta.attachmentId, meta.totalChunks)>>
    /\ \A att \in ReceivedAttachments(u) :
         att.complete => EveryChunkOpened(u, att.id, att.totalChunks)

\* What the code guarantees: a received attachment is complete exactly when
\* it has at least one chunk and the record holds a chunk of every index, and
\* then its data is the chunks held, in ascending order of the index; a chunk
\* is held only if it was decrypted.
ReceivedAttachmentSound ==
  \A u \in Users :
    \A att \in ReceivedAttachments(u) :
      /\ att.complete <=>
           (att.totalChunks >= 1 /\ DOMAIN att.chunks = 0 .. att.totalChunks - 1)
      /\ att.complete =>
           att.data = <<ChunksInOrder(u, att.id, att.totalChunks)>>
      /\ \A i \in DOMAIN att.chunks :
           \E inner \in OpenedChunks(u, att.id) : inner.index = i /\ inner.data = att.chunks[i]

\* A chunk of a file arrived before the attachment_meta: it was decrypted
\* and dropped, and the attachment_meta arrived afterwards. Every chunk has
\* been decrypted and the attachment is not complete.
ChunkBeforeMeta ==
  \E u \in Users :
    \E x \in history.opened :
      /\ x.to = u
      /\ x.env.type = "dm_message"
      /\ x.env.ciphertext.plain.kind = "attachment_chunk"
      /\ x.out = "return"
      /\ \E att \in ReceivedAttachments(u) :
           /\ att.id = x.env.ciphertext.plain.attachmentId
           /\ att.totalChunks >= 1
           /\ EveryChunkOpened(u, att.id, att.totalChunks)
           /\ ~att.complete

\* The attachment_meta of an empty file was applied.
EmptyFileReceived ==
  \E u \in Users : \E att \in ReceivedAttachments(u) : att.totalChunks = 0

\* A file of two chunks was reassembled from chunks that arrived in
\* descending order of the index.
ReassembledOutOfOrder ==
  \E u \in Users :
    \E att \in ReceivedAttachments(u) :
      /\ att.complete
      /\ att.totalChunks = 2
      /\ last.op = "deliver"
      /\ last.user = u
      /\ last.env.type = "dm_message"
      /\ last.env.ciphertext.plain.kind = "attachment_chunk"
      /\ last.env.ciphertext.plain.index = 0


(***************************************************************************)
(* The history of the wire (specification SpecHistory).                    *)
(***************************************************************************)
\* C34: over the whole life of a conversation, rekeys included, no message
\* key is used to seal two different outbound payloads.
C34_NoMessageKeyReuse ==
  \A x \in history.sealed :
    \A y \in history.sealed :
      x.key = y.key => x = y

\* As long as no user has called rekeySession, no message key has sealed two
\* payloads.
OneKeyOnePayloadBeforeRekey ==
  \A x \in history.sealed :
    \A y \in history.sealed :
      (x.key = y.key /\ x # y) => rekeyed > 0

\* Two texts of one user in one conversation were sealed, with two keys.
TwoTextsSealed ==
  \E x \in history.sealed :
    \E y \in history.sealed :
      /\ x # y
      /\ x.plain.kind = "text"
      /\ y.plain.kind = "text"
      /\ x.key.root = y.key.root
      /\ x.key.label = y.key.label

\* A user sealed a text and, after rekeySession, the rekey notice with the
\* same message key.
KeyReusedAfterRekey ==
  \E x \in history.sealed :
    \E y \in history.sealed :
      /\ x.key = y.key
      /\ x.plain.kind = "text"
      /\ y.plain.kind = "rekey"


\* The step handed a user a dm_message the user had decrypted before, and the
\* user decrypted it again.
ReplayOpened ==
  /\ last'.op = "deliver"
  /\ last'.env.type = "dm_message"
  /\ last'.out \in DecryptedOutcomes
  /\ \E x \in history.opened : x.to = last'.user /\ x.env = last'.env

\* C35: a dm_message envelope that a receiver has decrypted and applied once
\* is never decrypted and applied again by that receiver, whatever happens in
\* between (further messages, out-of-order arrivals, session resets by rekey).
C35_ReplayRejected == [][~ReplayOpened]_vars

\* As long as no user has called rekeySession, an envelope is opened once.
ReplayRejectedBeforeRekey == [][ReplayOpened => rekeyed > 0]_vars

\* An envelope a user had decrypted arrived again and was refused: the
\* ratchet had no key for its counter.
ReplayRefused ==
  /\ last.op = "deliver"
  /\ last.env.type = "dm_message"
  /\ last.out = "nokey"
  /\ \E x \in history.opened : x.to = last.user /\ x.env = last.env


(***************************************************************************)
(* Inbound edits and deletes (specification SpecEdits).                    *)
(***************************************************************************)
\* The step handed user u a dm_message whose inner payload is an edit or a
\* delete, and u applied it.
InboundEditOrDelete(u) ==
  /\ last'.op = "deliver"
  /\ last'.user = u
  /\ last'.env.type = "dm_message"
  /\ last'.out = "applied"
  /\ last'.env.ciphertext.plain.kind \in {"edit", "delete"}

\* The messages of u that satisfy Test keep body, edited and deleted in the
\* step, in the state and in the database.
MessagesKept(u, Test(_)) ==
  /\ \A chatId \in DOMAIN store[u].messages :
       \A i \in DOMAIN store[u].messages[chatId] :
         Test(store[u].messages[chatId][i]) =>
           /\ store'[u].messages[chatId][i].id = store[u].messages[chatId][i].id
           /\ store'[u].messages[chatId][i].body = store[u].messages[chatId][i].body
           /\ store'[u].messages[chatId][i].edited = store[u].messages[chatId][i].edited
           /\ store'[u].messages[chatId][i].deleted = store[u].messages[chatId][i].deleted
  /\ \A id \in DOMAIN db[u].messages :
       Test(db[u].messages[id]) =>
         /\ db'[u].messages[id].body = db[u].messages[id].body
         /\ db'[u].messages[id].edited = db[u].messages[id].edited
         /\ db'[u].messages[id].deleted = db[u].messages[id].deleted

\* C36: an inbound edit or delete from peer P changes only messages whose
\* fromPubKey is P; a message of another author that it names keeps its body
\* and its edited and deleted fields.
C36_EditDeleteAuthorship ==
  [][\A u \in Users :
       InboundEditOrDelete(u) =>
         MessagesKept(u, LAMBDA m : m.fromPubKey # last'.env.fromPubKey)]_vars

\* What the handler keeps: every message other than the one the payload
\* names.
EditTouchesNamedMessageOnly ==
  [][\A u \in Users :
       InboundEditOrDelete(u) =>
         MessagesKept(u, LAMBDA m : m.id # last'.env.ciphertext.plain.messageId)]_vars

\* A user applied an edit of the peer that names a text the user wrote: the
\* text now has the body the peer chose.
OwnTextEditedByPeer ==
  /\ last.op = "deliver"
  /\ last.env.type = "dm_message"
  /\ last.out = "applied"
  /\ last.env.ciphertext.plain.kind = "edit"
  /\ \E chatId \in DOMAIN store[last.user].messages :
       \E m \in Range(store[last.user].messages[chatId]) :
         /\ m.id = last.env.ciphertext.plain.messageId
         /\ m.fromPubKey = store[last.user].chatKey
         /\ m.edited
         /\ m.body = last.env.ciphertext.plain.body

\* A user applied an edit of the peer that names a text of the peer.
PeerTextEditedByPeer ==
  /\ last.op = "deliver"
  /\ last.env.type = "dm_message"
  /\ last.out = "applied"
  /\ last.env.ciphertext.plain.kind = "edit"
  /\ \E chatId \in DOMAIN store[last.user].messages :
       \E m \in Range(store[last.user].messages[chatId]) :
         /\ m.id = last.env.ciphertext.plain.messageId
         /\ m.fromPubKey = last.env.fromPubKey
         /\ m.edited

\* The messages of the given id.
MessageOf(messages, id) ==
  {m \in UNION {Range(messages[chatId]) : chatId \in DOMAIN messages} : m.id = id}

\* C37: once a delete has been applied to a message (deleted = true, body
\* empty), the message keeps deleted = true and an empty body whatever is
\* applied afterwards, in particular an edit naming it that arrives later.
C37_DeleteIsFinal ==
  [][\A u \in Users :
     (last'.op = "deliver" /\ last'.user = u) =>
       /\ \A chatId \in DOMAIN store[u].messages :
            \A i \in DOMAIN store[u].messages[chatId] :
              (store[u].messages[chatId][i].deleted /\ store[u].messages[chatId][i].body = "") =>
                /\ store'[u].messages[chatId][i].deleted
                /\ store'[u].messages[chatId][i].body = ""
       /\ \A id \in DOMAIN db[u].messages :
            (db[u].messages[id].deleted /\ db[u].messages[id].body = "") =>
              (db'[u].messages[id].deleted /\ db'[u].messages[id].body = "")]_vars

\* What the code keeps of a deleted message: the flag.
DeletedFlagKept ==
  [][\A u \in Users :
       /\ \A chatId \in DOMAIN store[u].messages :
            \A i \in DOMAIN store[u].messages[chatId] :
              store[u].messages[chatId][i].deleted => store'[u].messages[chatId][i].deleted
       /\ \A id \in DOMAIN db[u].messages :
            db[u].messages[id].deleted => db'[u].messages[id].deleted]_vars

\* An edit was applied to a deleted message by the user who received both:
\* the message is deleted and has a body.
DeletedMessageEdited ==
  /\ last.op = "deliver"
  /\ last.out = "applied"
  /\ last.env.type = "dm_message"
  /\ last.env.ciphertext.plain.kind = "edit"
  /\ \E m \in MessageOf(store[last.user].messages, last.env.ciphertext.plain.messageId) :
       m.deleted /\ m.body # ""


\* The same with the page's buttons alone: the author of the text sent an
\* edit and then a delete of it (the delete has the later counter), nobody
\* else sent an edit or a delete, and the receiver applied the edit after
\* the delete.
AuthorsEditAfterAuthorsDelete ==
  /\ DeletedMessageEdited
  /\ last.user # Sender
  /\ \A x \in history.sealed :
       x.plain.kind \in {"edit", "delete"} => x.key.label = <<"send", Sender>>
  /\ \E e, d \in history.sealed :
       /\ e.plain.kind = "edit"
       /\ d.plain.kind = "delete"
       /\ e.key.i < d.key.i


(***************************************************************************)
(* Answering a request, step by step (specification SpecAccept).           *)
(* respondToRequest is an async function: it yields at every await, and    *)
(* the transport and the other handlers run before it resumes. Here the    *)
(* accepted answer to a DM request runs await by await.                    *)
(***************************************************************************)
\* respondToRequest with response "accepted" on a DM request, from one
\* suspension point to the next. The task carries the state and the request
\* the function read when it started, and where it resumes:
\*   "begin"      up to await publishPayload(targetInbox, ...): the request
\*                is updated and the chat_accept is published
\*   "setChat"    await setChat(chat); set(chats: [...prev.chats, chat])
\*   "subscribe"  await ensureSubscription(dmTopic(chatId), ...)
\*   "session"    await ensureSession(...) and the system message
respondToRequestStep(c, task) ==
  LET state == task.state
      request == task.request
      updated == [request EXCEPT !.status = "accepted"]
      chatId == conversationIdFromPubKeys(state.chatKey, request.fromPubKey)
      payload == [v |-> 1, type |-> "chat_accept", requestId |-> request.id,
                  fromPubKey |-> state.chatKey, toPubKey |-> request.fromPubKey,
                  conversationId |-> chatId]
      chat == ChatRecord(chatId, request.kind, request.fromPubKey,
                         <<state.chatKey, request.fromPubKey>>)
      c6 == ensureSession(c, chatId, "dm", request.fromPubKey)
      systemMessage == createSystemMessage(c6, chatId, IntroBody(request.intro))
      c7 == [setMessage(TookId(c6), systemMessage) EXCEPT
               !.st.messages = updateMessageList(@, chatId, systemMessage)]
  IN CASE task.pc = "begin" ->
            publishPayload(
              [setRequestState(setRequest(c, updated), request.id, "accepted") EXCEPT
                 !.st.requests =
                   [i \in DOMAIN @ |-> IF @[i].id = request.id THEN updated ELSE @[i]]],
              inboxTopic(request.fromPubKey), payload)
       [] task.pc = "setChat" ->
            [setChat(c, chat) EXCEPT !.st.chats = Append(@, chat)]
       [] task.pc = "subscribe" -> ensureSubscription(c, dmTopic(chatId))
       [] OTHER -> IF messageListForChat(c6.st.messages, chatId) = <<>> THEN c7 ELSE c6

NextPc(pc) ==
  CASE pc = "begin" -> "setChat"
    [] pc = "setChat" -> "subscribe"
    [] pc = "subscribe" -> "session"
    [] OTHER -> "done"

\* The user accepts a pending DM request: the function runs up to the await
\* of publishPayload.
RespondBegin(u, requestId) ==
  /\ Unlocked(store[u])
  /\ \E r \in Range(store[u].requests) :
       /\ r.id = requestId
       /\ r.toPubKey = store[u].chatKey
       /\ r.status = "pending"
       /\ r.kind = "dm"
       /\ LET task == [kind |-> "respondToRequest", pc |-> "begin", request |-> r,
                       state |-> store[u]]
          IN /\ Commit(Outcome(respondToRequestStep(Ctx(u), task), "accepted"),
                       "respondToRequest", NoEnvelope, net)
             /\ Suspend(u, [task EXCEPT !.pc = "setChat"])
  /\ UNCHANGED <<Counters, subscribeCalls, begun>>

\* The function resumes and runs to its next await, or to its end.
RespondResume(u, i) ==
  /\ tasks[u][i].kind = "respondToRequest"
  /\ Write(respondToRequestStep(Ctx(u), tasks[u][i]), net)
  /\ IF NextPc(tasks[u][i].pc) = "done" THEN Finish(u, i)
     ELSE Resume(u, i, NextPc(tasks[u][i].pc))
  /\ UNCHANGED <<Counters, subscribeCalls, begun, last>>

NextAccept ==
  /\ \/ \E u \in Users : CreateIdentity(u) /\ UNCHANGED asyncVars
     \/ \E u \in Users, to \in Users, intro \in Intros :
          SendChatRequest(u, to, intro) /\ UNCHANGED asyncVars
     \/ \E u \in Users, i \in 1 .. MaxIds :
          i \in DOMAIN store[u].requests /\ RespondBegin(u, store[u].requests[i].id)
     \/ \E u \in Users : \E i \in DOMAIN tasks[u] : RespondResume(u, i)
     \/ \E u \in Users, i \in 1 .. MaxIds, body \in Bodies :
          /\ i \in DOMAIN store[u].chats
          /\ SendMessage(u, store[u].chats[i].id, body)
          /\ UNCHANGED asyncVars
     \/ \E d \in net : Deliver(d) /\ UNCHANGED asyncVars
  /\ UNCHANGED <<ratchetVars, backups, idVars, history>>

SpecAccept == Init /\ [][NextAccept]_vars


\* The user whose chat key is key holds the chat with peer, its session and
\* the subscription of its DM topic.
ReadyFor(key, peer) ==
  \E v \in Users :
    /\ store[v].chatKey = key
    /\ HasChat(store[v], conversationIdFromPubKeys(key, peer))
    /\ HasSession(Ctx(v), conversationIdFromPubKeys(key, peer))
    /\ dmTopic(conversationIdFromPubKeys(key, peer)) \in subscribedTopics[v]

\* C38: at the moment a responder's chat_accept can be processed by the
\* requester (the envelope is with the transport), the responder holds the
\* chat, its session and its DM-topic subscription, so that no dm_message the
\* requester publishes after the accept goes to a topic the responder has not
\* subscribed.
C38_AcceptWhenReady ==
  \A d \in net :
    d.env.type = "chat_accept" => ReadyFor(d.env.fromPubKey, d.env.toPubKey)

\* What does hold: once respondToRequest has returned, the responder is
\* ready for every chat_accept that is still on its way.
AcceptReadyAfterReturn ==
  \A d \in net :
    (d.env.type = "chat_accept" /\ \A v \in Users : tasks[v] = <<>>) =>
      ReadyFor(d.env.fromPubKey, d.env.toPubKey)

\* The requester has processed the accept and sent a text on the DM topic
\* while the responder had not subscribed it: the transport has the text for
\* nobody, and the responder, whose respondToRequest has returned, does not
\* have it.
TextMissedByResponder ==
  /\ last.op = "sendMessage"
  /\ last.out = "sent"
  /\ \A v \in Users : tasks[v] = <<>>
  /\ \E v \in Users \ {last.user} :
       /\ \E r \in Range(store[v].requests) :
            r.fromPubKey = store[last.user].chatKey /\ r.status = "accepted"
       /\ ReadyFor(store[v].chatKey, store[last.user].chatKey)
       /\ \A d \in net : d.to # v
       /\ \A m \in UNION {Range(store[v].messages[k]) : k \in DOMAIN store[v].messages} :
            m.type # "text"

\* The accept is with the transport and the responder is ready.
AcceptOnItsWayResponderReady ==
  \E d \in net :
    /\ d.env.type = "chat_accept"
    /\ ReadyFor(d.env.fromPubKey, d.env.toPubKey)


(***************************************************************************)
(* The list of chats (specification SpecChats): every user may ask every   *)
(* other user for a chat, so that requests cross; a user may create a      *)
(* group; respondToRequest is called with any request addressed to the     *)
(* user, whatever its status (the function does not look at the status), so *)
(* that it is called again for a request already answered.                 *)
(***************************************************************************)
\* A user asks another user for a chat; one request per user.
RequestChat(u, to, intro) ==
  /\ Unlocked(store[u])
  /\ store[u].inboxTopic # <<>>
  /\ to # u
  /\ \A r \in Range(store[u].requests) : r.fromPubKey # store[u].chatKey
  /\ Commit(sendChatRequest(Ctx(u), to, intro), "sendChatRequest", NoEnvelope, net)
  /\ requested' = requested + 1
  /\ UNCHANGED <<forged, created, rekeyed, duplicated>>

\* A user creates a group, whatever requests there are.
CreateOneGroup(u, name, members) ==
  /\ Unlocked(store[u])
  /\ created < MaxGroups
  /\ Commit(createGroup(Ctx(u), name, members), "createGroup", NoEnvelope, net)
  /\ created' = created + 1
  /\ UNCHANGED <<forged, requested, rekeyed, duplicated>>

\* The user accepts one of the requests addressed to them, answered or not.
RespondAgain(u, requestId) ==
  /\ Unlocked(store[u])
  /\ Len(store[u].chats) < MaxChats
  /\ \E r \in Range(store[u].requests) :
       r.id = requestId /\ r.toPubKey = store[u].chatKey
  /\ Commit(respondToRequest(Ctx(u), requestId, "accepted"), "respondToRequest",
            [type |-> "none", requestId |-> requestId], net)
  /\ UNCHANGED <<forged, requested, created, rekeyed, duplicated>>

NextChats ==
  /\ \/ \E u \in Users : CreateIdentity(u)
     \/ \E u \in Users, to \in Users, intro \in Intros : RequestChat(u, to, intro)
     \/ \E u \in Users, name \in GroupNames :
          \E members \in MemberLists(u) : CreateOneGroup(u, name, members)
     \/ \E u \in Users, i \in 1 .. MaxIds :
          i \in DOMAIN store[u].requests /\ RespondAgain(u, store[u].requests[i].id)
     \/ \E d \in net : Deliver(d)
  /\ UNCHANGED <<ratchetVars, asyncVars, backups, idVars, history>>

SpecChats == Init /\ [][NextChats]_vars

\* C39: under any sequence of respondToRequest calls, createGroup calls and
\* inbound chat_accept envelopes (requests that cross in both directions
\* included), the in-memory chats list never contains two records with the
\* same id.
C39_UniqueChats ==
  \A u \in Users :
    \A i, j \in DOMAIN store[u].chats :
      store[u].chats[i].id = store[u].chats[j].id => i = j


\* The records of the chat with peer in the list of user u.
ChatRecordsWith(st, peer) ==
  {i \in DOMAIN st.chats : st.chats[i].id = conversationIdFromPubKeys(st.chatKey, peer)}

\* Requests that cross: the step is the first answer of a user to the peer's
\* request (the request is pending), the user holds one record of the chat
\* (by the peer's chat_accept of the user's own request), and holds two after
\* the step.
CrossingAcceptDuplicates ==
  /\ last'.op = "respondToRequest"
  /\ \E r \in Range(store[last'.user].requests) :
       /\ r.id = last'.env.requestId
       /\ r.status = "pending"
       /\ r.kind = "dm"
       /\ Cardinality(ChatRecordsWith(store[last'.user], r.fromPubKey)) = 1
       /\ Cardinality(ChatRecordsWith(store'[last'.user], r.fromPubKey)) = 2

\* Violated: the step above exists.
NoCrossingDuplicate == [][~CrossingAcceptDuplicates]_vars

\* What does hold: the database keeps one chat record per id (setChat writes
\* by key), and the chat_accept handler leaves one record of its chat in the
\* list.
AcceptLeavesOneRecord ==
  (last.op = "deliver" /\ last.env.type = "chat_accept" /\ last.out = "accepted") =>
    Cardinality(ChatRecordsWith(store[last.user], last.env.fromPubKey)) = 1

\* A chat_accept for a chat the user already has was applied.
AcceptForHeldChatApplied ==
  /\ last.op = "deliver"
  /\ last.env.type = "chat_accept"
  /\ last.out = "accepted"
  /\ Len(store[last.user].chats) = 1
  /\ \E r \in Range(store[last.user].requests) :
       r.fromPubKey = last.env.fromPubKey /\ r.status = "accepted"


(***************************************************************************)
(* The identity record and the keys in memory (specification SpecIdentity):*)
(* next to a handshake, a user writes a backup, any user restores it, a    *)
(* user imports the identity another installation exported, and the        *)
(* process of one user restarts and unlocks. Keys are written in one form: *)
(* the chat key of a record is its publicKey.                              *)
(***************************************************************************)
\* exportIdentity: the JSON text of the identity record (it throws when
\* there is none; the model calls it for a user who has one)
exportIdentity(c) == encodePayload(c.st.identity[1])

\* importIdentity: the record is written to the database and set in the
\* state; chatKey, inboxTopic and unlockedSecretKey are not touched.
importIdentity(c, payload) ==
  LET identity == decodePayload(payload)
  IN IF identity = <<>> THEN Outcome(c, "throw")
     ELSE Outcome([c EXCEPT !.db.identity = identity, !.st.identity = identity], "imported")

\* A user imports the identity that installation v exported.
ImportIdentity(u, v) ==
  /\ store[v].identity # <<>>
  /\ LET payload == exportIdentity(Ctx(v))
     IN Commit(importIdentity(Ctx(u), payload), "importIdentity",
               [type |-> "none", payload |-> payload], net)
  /\ UNCHANGED <<forged, requested, created, rekeyed, duplicated>>

\* A user restores the file user v keeps.
RestoreBackupOf(u, v, passphrase) ==
  /\ backups[v] # <<>>
  /\ RestoreData(u, backups[v][1].file, passphrase)
  /\ UNCHANGED backups

NextIdentity ==
  \/ /\ \/ \E u \in Users : CreateIdentity(u)
        \/ \E to \in Users, intro \in Intros :
             requested = 0 /\ SendChatRequest(Sender, to, intro)
        \/ \E u \in Users, i \in 1 .. MaxIds :
             i \in DOMAIN store[u].requests
               /\ RespondToRequest(u, store[u].requests[i].id, "accepted")
        \/ \E d \in net : Deliver(d)
        \/ \E u \in Users, v \in Users : ImportIdentity(u, v)
        \/ \E u \in Users : Reload(u)
        \/ \E u \in Users : UnlockIdentity(u, "pass")
     /\ UNCHANGED <<ratchetVars, asyncVars, backups, idVars, history>>
  \/ /\ \/ \E u \in Users : BackupData(u, "pass")
        \/ \E u \in Users, v \in Users : RestoreBackupOf(u, v, "pass")
     /\ UNCHANGED <<ratchetVars, asyncVars, idVars, history>>

SpecIdentity == Init /\ [][NextIdentity]_vars

\* The key sealed in an identity record.
SealedSecretKey(record) == record.encryptedSecretKey.data

\* C40: in every reachable state in which the identity is unlocked, chatKey
\* is the chat key of identity.publicKey, inboxTopic is that key's inbox
\* topic, and unlockedSecretKey is the secret key sealed in that identity
\* record, also after importIdentity and after restoreData of a backup
\* holding a different identity.
C40_IdentityConsistency ==
  \A u \in Users :
    ~Locked(store[u]) =>
      /\ store[u].chatKey = store[u].identity[1].publicKey
      /\ store[u].inboxTopic = <<inboxTopic(store[u].identity[1].publicKey)>>
      /\ store[u].unlockedSecretKey = SealedSecretKey(store[u].identity[1])

\* What does hold: the three fields in memory belong to one key pair.
KeysInMemoryConsistent ==
  \A u \in Users :
    Unlocked(store[u]) =>
      /\ store[u].chatKey = PubOf(store[u].unlockedSecretKey)
      /\ store[u].inboxTopic = <<inboxTopic(store[u].chatKey)>>

\* What does hold as well: after createIdentity and after an unlockIdentity
\* that returned true, the fields are those of the identity record.
ConsistentAfterUnlock ==
  (last.op = "createIdentity" \/ (last.op = "unlockIdentity" /\ last.out = "true")) =>
    /\ ~Locked(store[last.user])
    /\ store[last.user].chatKey = store[last.user].identity[1].publicKey
    /\ store[last.user].inboxTopic = <<inboxTopic(store[last.user].identity[1].publicKey)>>
    /\ store[last.user].unlockedSecretKey = SealedSecretKey(store[last.user].identity[1])

\* An unlocked user imported the identity of another installation: the
\* record is the other key's, the keys in memory are the old ones.
ImportedWhileUnlocked ==
  /\ last.op = "importIdentity"
  /\ last.out = "imported"
  /\ ~Locked(store[last.user])
  /\ store[last.user].chatKey # store[last.user].identity[1].publicKey

\* An unlocked user restored a backup that holds another identity.
RestoredOtherIdentity ==
  /\ last.op = "restoreData"
  /\ last.out = "restored"
  /\ ~Locked(store[last.user])
  /\ store[last.user].chatKey # store[last.user].identity[1].publicKey

\* A user unlocked an identity that was imported before the restart: the
\* keys in memory are those of the imported record.
UnlockedImportedIdentity ==
  /\ last.op = "unlockIdentity"
  /\ last.out = "true"
  /\ store[last.user].chatKey # last.user
====
